---- MODULE Spec2Model ----
(***************************************************************************)
(* A model of the GPS receiver's orchestration: the Receiver's per-block   *)
(* step, the Acquirer in its two scheduling variants (in-process and       *)
(* background worker), the World's bookkeeping of pending and promoted     *)
(* satellite parameters, and the Tracker's code-phase loop.                *)
(*                                                                         *)
(* Time is counted in sample blocks (one block = 1 ms).  Signal processing *)
(* results (acquisition strength, what a Pipeline decodes from a block,    *)
(* the DLL's correction) are inputs drawn from small sets.                 *)
(***************************************************************************)
EXTENDS Integers, Sequences, FiniteSets, TLC

(***************************************************************************)
(* Bounds of the model.                                                    *)
(***************************************************************************)
\* Number of satellite ids the receiver may track (the program has 31).
NumSats == 2
\* Largest block end timestamp that is distinguished; later blocks carry it.
MaxTime == 13
\* ACQUISITION_INTERVAL expressed in blocks (the program has 10 000).
IntervalBlocks == 3
\* HTTP_UPDATE_INTERVAL_MS expressed in blocks (the program has 1000).
HttpBlocks == 4
\* Most subframes a Pipeline decodes in the block in which it determines its
\* bit phase (the program buffers 1200 pseudobits: up to 4 subframes).
MaxSubframesPerStep == 1

(***************************************************************************)
(* Program constants.                                                      *)
(***************************************************************************)
MS_OF_SAMPLES_REQUIRED_TO_PERFORM_ACQUISITION == 10
ACQUISITION_STRENGTH_THRESHOLD == 3
SOLUTION_HISTORY_SIZE == 10
\* World.compute_solution needs this many healthy satellites.
MinSatellitesForSolution == 4

ACQUISITION_INTERVAL == IntervalBlocks
HTTP_UPDATE_INTERVAL_MS == HttpBlocks
ALL_SATELLITE_IDS == 2..(1 + NumSats)

\* datetime(MINYEAR, 1, 1): earlier than the end of every block.
MinTimestamp == 0
\* "No satellite" (the None of _get_next_acquisition_target).
NoSat == 0
\* Strengths an attempt may report: below, at and above the threshold.
Strengths ==
    (ACQUISITION_STRENGTH_THRESHOLD - 1)..(ACQUISITION_STRENGTH_THRESHOLD + 1)

Min(a, b) == IF a < b THEN a ELSE b

VARIABLES
    mode,          \* "main" (MainProcessAcquirer) or "subprocess"
    pc,            \* position of the main process in Receiver.handle_1ms_of_samples
    err,           \* "none", or the exception that ended the main process
    now,           \* end_timestamp of the newest sample block
    samples,       \* len(Acquirer._samples)
    next_acquisition_at,   \* Acquirer._next_acquisition_at_by_satellite_id
    tracked_satellite_ids, \* Acquirer._tracked_satellite_ids
    waiting,       \* SubprocessAcquirer._waiting
    toWorker,      \* pipe, main -> worker: jobs sent and not yet received
    workerJob,     \* the job the worker is computing (<<>> if none)
    toMain,        \* pipe, worker -> main: results sent and not yet received
    inflight,      \* satellite of the job main is waiting for (NoSat if none)
    target,        \* satellite chosen by _get_next_acquisition_target in this step
    result,        \* what _get_acquisition returned in this step (<<>> = None)
    acquisition,   \* what Acquirer.handle_1ms_of_samples returned in this step
    last_result_at, \* history: end of the block in which the newest result for
                   \* each satellite was obtained (MinTimestamp: none yet)
    prev_result_at, \* history: last_result_at of this step's target when it
                   \* was chosen
    pipelines,     \* Receiver._pipelines_by_satellite_id, in insertion order
    todo,          \* rest of list(self._pipelines_by_satellite_id.items())
    fed,           \* satellites whose Pipeline was fed this step's block
    raised,        \* what the newest Pipeline.handle_1ms_of_samples call of this
                   \* step raised ("none" if it returned)
    raised_by,     \* the satellite of that Pipeline (NoSat before the first call)
    dropped,       \* satellites dropped in this step
    ever_dropped,  \* history: satellites dropped so far
    pending,       \* World._pending_satellite_parameters
    params,        \* World._satellite_parameters
    solver_ids,    \* satellite_ids used by this step's compute_solution
    solved,        \* whether compute_solution has run in this step
    solutions,     \* len(Receiver._solutions)
    ms_since_http, \* Receiver._ms_since_sending_http_data
    prn_code_phase_shift, \* Tracker._prn_code_phase_shifts[-1]
    side,          \* Tracker._side
    wrap_side,     \* what _track_prn_code_phase_shift returned last
    prn_count,     \* the count the Tracker reported to the World last
    tracker_steps, \* Tracker steps taken
    unwrapped,       \* the updated phase of the last step before it is wrapped
    prns_reported, \* calls of World.handle_prns_tracked made by the Tracker
    w_pending,     \* one satellite's PendingSatelliteParameters (<<>> if none)
    w_params,      \* one satellite's SatelliteParameters (<<>> if none)
    w_failed,      \* an invariant() of the World has failed
    w_call,        \* the newest World call: "none", "prns" or "subframe"
    w_subframe,    \* history: the subframe of the newest call (<<>> if none)
    w_before,      \* history: prn_count before the newest call (<<>> if the
                   \* satellite had no SatelliteParameters)
    w_promoted_now, \* history: the newest call promoted the pending record
    w_got,         \* history: ids of the subframes received
    w_observed,    \* history: handle_prns_tracked has been called
    w_last_side,   \* history: side argument of the newest handle_prns_tracked
    w_subframes,   \* history: number of subframes received
    w_pending_steps, \* history: handle_prns_tracked calls while pending
    w_wraps,       \* history: number of steps that wrapped
    w_steps,       \* history: handle_prns_tracked calls since the newest subframe
    w_lefts,       \* history: ... of which wrapped LEFT
    w_rights,      \* history: ... of which wrapped RIGHT
    w_sum,         \* history: sum of the counts reported since then
    w_after_subframe, \* history: prn_count right after the newest subframe
    w_closed,      \* history: the subframe interval the newest call closed
    pseudobits,    \* PseudobitIntegrator._pseudobits
    bit_phase,     \* PseudobitIntegrator._bit_phase (0 while it is None)
    bit_determinations, \* history: calls of _determine_bit_phase
    bit_determined_from, \* history: _pseudobits when _determine_bit_phase was
                   \* called (<<>> before that)
    bit_offset,    \* history: the offset _determine_bit_phase chose (<<>> if none)
    bit_drained,   \* history: the bits the newest handle_pseudobit call has
                   \* handed to the SubframeDecoder
    bit_candidates, \* history: candidates handed to the SubframeDecoder so far
    bit_since,     \* history: handle_pseudobit calls since the determination
    pseudosymbols, \* PseudosymbolIntegrator._pseudosymbols
    bit_boundary_found, \* PseudosymbolIntegrator._bit_boundary_found
    sym_searches,  \* history: calls of _find_bit_boundary
    sym_from,      \* history: _pseudosymbols of the newest handle_pseudosymbol
                   \* call once the pseudosymbol was appended
    sym_discarded, \* history: pseudosymbols the newest call discarded
    sym_groups,    \* history: the groups the newest call turned into bits
    sym_bits,      \* history: the UnresolvedBits the newest call emitted
    sym_emitted,   \* history: UnresolvedBits emitted so far
    sym_retained,  \* history: pseudosymbols kept when the boundary was found
                   \* or received since
    sym_since,     \* history: handle_pseudosymbol calls since the boundary
                   \* was found
    inv_pseudobits, \* _pseudobits of a second PseudobitIntegrator, which is
                   \* fed the negated pseudobits
    inv_bit_phase, \* its _bit_phase (0 while it is None)
    inv_offset,    \* history: the offset its _determine_bit_phase chose
    inv_drained,   \* history: the bits its newest handle_pseudobit call has
                   \* handed to its SubframeDecoder
    inv_exception, \* what its newest handle_pseudobit call raised
    decode_call    \* a call of _decode_subframe_data (<<>> if none): the data
                   \* bits encoded, the bits transmitted, the position of the
                   \* flipped bit (0 if none) and the result (<<>> before it)
    , fn_call      \* the object or the call followed on its own (<<>> if
                   \* none), a record whose field f names what is followed

acqVars == <<mode, now, samples, next_acquisition_at, tracked_satellite_ids,
             waiting, inflight, target, result, acquisition, last_result_at,
             prev_result_at>>
pipeVars == <<toWorker, workerJob, toMain>>
worldVars == <<pending, params>>
recvVars == <<pc, err, pipelines, todo, fed, raised, raised_by, dropped, ever_dropped,
              solver_ids, solved, solutions, ms_since_http>>
\* The state of the components that are modelled on their own.
trackerVars == <<prn_code_phase_shift, side, wrap_side, prn_count,
                 tracker_steps, unwrapped, prns_reported>>
fullWorldVars == <<w_pending, w_params, w_failed, w_call, w_subframe, w_before,
                   w_promoted_now, w_got, w_observed, w_last_side, w_subframes,
                   w_pending_steps, w_wraps, w_steps, w_lefts, w_rights, w_sum,
                   w_after_subframe, w_closed>>
bitVars == <<pseudobits, bit_phase, bit_determinations, bit_determined_from,
             bit_offset, bit_drained, bit_candidates, bit_since>>
symVars == <<pseudosymbols, bit_boundary_found, sym_searches, sym_from,
             sym_discarded, sym_groups, sym_bits, sym_emitted, sym_retained,
             sym_since>>
fnVars == <<inv_pseudobits, inv_bit_phase, inv_offset, inv_drained,
            inv_exception, decode_call, fn_call>>
compVars == <<trackerVars, fullWorldVars, bitVars, symVars, fnVars>>
vars == <<acqVars, pipeVars, worldVars, recvVars, compVars>>

(***************************************************************************)
(* Maps with a changing key set (Python dicts).                            *)
(***************************************************************************)
EmptyMap == [k \in {} |-> 0]
MapPut(m, key, v) == [k \in DOMAIN m \cup {key} |-> IF k = key THEN v ELSE m[k]]
MapDel(m, key) == [k \in DOMAIN m \ {key} |-> m[k]]

(***************************************************************************)
(* World (world.py).  A world value is the pair of dicts together with a   *)
(* flag that records a failed invariant() of                               *)
(* _maybe_promote_pending_satellite_parameters.  Numeric payloads (the     *)
(* timestamp, the side, the TOW count, the ephemeris) are represented by   *)
(* whether they have been set; subframe 1 by its sv_health[0] bit (-1      *)
(* while it is None).  side is set together with the timestamp.            *)
(***************************************************************************)
\* What the World is given for a decoded subframe.
Subframes ==
    {[subframe_id |-> 1, sv_health |-> h] : h \in {0, 1}}
    \cup {[subframe_id |-> i, sv_health |-> 0] : i \in 2..5}

NewPendingSatelliteParameters ==
    [prn_code_trailing_edge_timestamp |-> FALSE,
     subframe_1 |-> -1, subframe_2 |-> FALSE, subframe_3 |-> FALSE,
     tow_count |-> FALSE]

Pending_handle_subframe(psp, subframe) ==
    LET t == [psp EXCEPT !.tow_count = TRUE]
    IN  CASE subframe.subframe_id = 1 ->
                [t EXCEPT !.subframe_1 = subframe.sv_health]
          [] subframe.subframe_id = 2 -> [t EXCEPT !.subframe_2 = TRUE]
          [] subframe.subframe_id = 3 -> [t EXCEPT !.subframe_3 = TRUE]
          [] OTHER -> t

\* TRUE iff to_satellite_parameters returns a SatelliteParameters.
Pending_is_complete(psp) ==
    /\ psp.prn_code_trailing_edge_timestamp
    /\ psp.subframe_1 # -1
    /\ psp.subframe_2
    /\ psp.subframe_3
    /\ psp.tow_count

to_satellite_parameters(psp) == [sv_health |-> psp.subframe_1]

\* SatelliteParameters.handle_subframe without the fields of subframe 1.
SatelliteParameters_handle_subframe_keeping_health(sp, subframe) == sp

SatelliteParameters_handle_subframe(sp, subframe) ==
    IF subframe.subframe_id = 1
    THEN [sp EXCEPT !.sv_health = subframe.sv_health]
    ELSE sp

\* A promotion that leaves the pending entry in place.
_maybe_promote_keeping_pending(w, satellite_id) ==
    IF satellite_id \notin DOMAIN w.pending \/ satellite_id \in DOMAIN w.params
    THEN [w EXCEPT !.invariant_failed = TRUE]
    ELSE IF Pending_is_complete(w.pending[satellite_id])
         THEN [w EXCEPT
                 !.params = MapPut(w.params, satellite_id,
                               to_satellite_parameters(w.pending[satellite_id]))]
         ELSE w

_maybe_promote_pending_satellite_parameters(w, satellite_id) ==
    IF satellite_id \notin DOMAIN w.pending \/ satellite_id \in DOMAIN w.params
    THEN [w EXCEPT !.invariant_failed = TRUE]
    ELSE IF Pending_is_complete(w.pending[satellite_id])
         THEN [w EXCEPT
                 !.params = MapPut(w.params, satellite_id,
                               to_satellite_parameters(w.pending[satellite_id])),
                 !.pending = MapDel(w.pending, satellite_id)]
         ELSE w

handle_prns_tracked(w, satellite_id) ==
    LET w1 == IF satellite_id \in DOMAIN w.params
              THEN w   \* timestamp and prn_count of the promoted entry change
              ELSE IF satellite_id \notin DOMAIN w.pending
                   THEN [w EXCEPT !.pending =
                           MapPut(w.pending, satellite_id,
                                  NewPendingSatelliteParameters)]
                   ELSE w
    IN  IF satellite_id \in DOMAIN w1.pending
        THEN _maybe_promote_pending_satellite_parameters(
                [w1 EXCEPT !.pending[satellite_id]
                              .prn_code_trailing_edge_timestamp = TRUE],
                satellite_id)
        ELSE w1

handle_subframe(w, satellite_id, subframe) ==
    LET w1 == IF satellite_id \in DOMAIN w.params
              THEN [w EXCEPT !.params[satellite_id] =
                      SatelliteParameters_handle_subframe(@, subframe)]
              ELSE IF satellite_id \notin DOMAIN w.pending
                   THEN [w EXCEPT !.pending =
                           MapPut(w.pending, satellite_id,
                                  NewPendingSatelliteParameters)]
                   ELSE w
    IN  IF satellite_id \in DOMAIN w1.pending
        THEN _maybe_promote_pending_satellite_parameters(
                [w1 EXCEPT !.pending[satellite_id] =
                              Pending_handle_subframe(@, subframe)],
                satellite_id)
        ELSE w1

\* A drop that forgets the promoted parameters.
drop_satellite_pending_only(w, satellite_id) ==
    [w EXCEPT !.pending = MapDel(w.pending, satellite_id)]

\* A drop that forgets the pending parameters.
drop_satellite_params_only(w, satellite_id) ==
    [w EXCEPT !.params = MapDel(w.params, satellite_id)]

\* A drop that forgets every satellite.
drop_every_satellite(w, satellite_id) ==
    [w EXCEPT !.pending = EmptyMap, !.params = EmptyMap]

\* World.drop_satellite.
drop_satellite(w, satellite_id) ==
    [w EXCEPT !.pending = MapDel(w.pending, satellite_id),
              !.params = MapDel(w.params, satellite_id)]

\* A choice of satellites that disregards their health.
compute_solution_satellite_ids_any_health(sps) == DOMAIN sps

\* The satellite ids compute_solution uses: promoted and healthy.
compute_solution_satellite_ids(sps) ==
    {satellite_id \in DOMAIN sps : sps[satellite_id].sv_health = 0}

\* World.handle_subframe applied to a list of subframes in order.
RECURSIVE handle_subframes(_, _, _)
handle_subframes(w, satellite_id, subframes) ==
    IF subframes = <<>> THEN w
    ELSE handle_subframes(handle_subframe(w, satellite_id, Head(subframes)),
                          satellite_id, Tail(subframes))

(***************************************************************************)
(* Acquirer (acquirer.py).                                                 *)
(***************************************************************************)
\* The keys of Receiver._pipelines_by_satellite_id.
PipelineIds(ps) == {ps[i].satellite_id : i \in 1..Len(ps)}

\* candidates: the untracked satellites whose time has come.
AcquisitionCandidates(next_at, tracked, t_now) ==
    {si \in ALL_SATELLITE_IDS \ tracked : next_at[si] <= t_now}

\* A choice of target that does not exclude the tracked satellites.
_get_next_acquisition_target_ignoring_tracked(next_at, tracked, t_now) ==
    LET candidates == AcquisitionCandidates(next_at, {}, t_now)
    IN  IF candidates = {} THEN NoSat
        ELSE CHOOSE si \in candidates :
                \A sj \in candidates :
                    \/ next_at[si] < next_at[sj]
                    \/ next_at[si] = next_at[sj] /\ si <= sj

\* A choice of target that does not wait for a satellite's time to come.
_get_next_acquisition_target_ignoring_time(next_at, tracked, t_now) ==
    LET candidates == ALL_SATELLITE_IDS \ tracked
    IN  IF candidates = {} THEN NoSat
        ELSE CHOOSE si \in candidates :
                \A sj \in candidates :
                    \/ next_at[si] < next_at[sj]
                    \/ next_at[si] = next_at[sj] /\ si <= sj

\* Acquirer._get_next_acquisition_target: the candidates are sorted by their
\* time with a stable sort, so among equal times the first in dict order
\* (ascending id) is taken.  NoSat when there is no candidate.
_get_next_acquisition_target(next_at, tracked, t_now) ==
    LET candidates == AcquisitionCandidates(next_at, tracked, t_now)
    IN  IF candidates = {} THEN NoSat
        ELSE CHOOSE si \in candidates :
                \A sj \in candidates :
                    \/ next_at[si] < next_at[sj]
                    \/ next_at[si] = next_at[sj] /\ si <= sj

\* An Acquisition, reduced to its satellite id and its strength.
Acquisition(satellite_id, strength) ==
    [satellite_id |-> satellite_id, strength |-> strength]

\* A schedule that is pushed back only by a successful attempt.
BumpNextAcquisitionAtOnSuccess(next_at, res, end_timestamp) ==
    IF res = <<>> \/ res[1].strength < ACQUISITION_STRENGTH_THRESHOLD
    THEN next_at
    ELSE [next_at EXCEPT ![res[1].satellite_id] =
                            end_timestamp + ACQUISITION_INTERVAL]

\* The tail of Acquirer.handle_1ms_of_samples, given what _get_acquisition
\* returned: the new _next_acquisition_at_by_satellite_id.
BumpNextAcquisitionAt(next_at, res, end_timestamp) ==
    IF res = <<>> THEN next_at
    ELSE [next_at EXCEPT ![res[1].satellite_id] =
                            end_timestamp + ACQUISITION_INTERVAL]

\* A threshold test that rejects a strength equal to the threshold.
ReturnedAcquisitionStrict(res) ==
    IF res # <<>> /\ res[1].strength > ACQUISITION_STRENGTH_THRESHOLD
    THEN res ELSE <<>>

\* ... and the value handed to the Receiver (<<>> is None).
ReturnedAcquisition(res) ==
    IF res # <<>> /\ res[1].strength >= ACQUISITION_STRENGTH_THRESHOLD
    THEN res ELSE <<>>

\* The end timestamp of the block that follows the one that ended at t.  An
\* endless stream (the SDR) is kept finite by not distinguishing timestamps
\* beyond MaxTime.
NextEndTimestamp(t, endless) == IF endless /\ t >= MaxTime THEN t ELSE t + 1

(***************************************************************************)
(* Receiver.handle_1ms_of_samples, lines 53-74: the call of                *)
(* Acquirer.handle_1ms_of_samples and the installation of a new Pipeline.  *)
(* A new Pipeline has not determined its bit phase.                        *)
(***************************************************************************)
NewPipeline(satellite_id) ==
    [satellite_id |-> satellite_id, bit_phase_known |-> FALSE]

\* The list taken before the Pipeline of this step's acquisition was added.
PipelineListWithoutNewest(ps) ==
    [i \in 1..(IF ps = <<>> THEN 0 ELSE Len(ps) - 1) |-> ps[i].satellite_id]

\* list(self._pipelines_by_satellite_id.items()), as satellite ids.
PipelineList(ps) == [i \in 1..Len(ps) |-> ps[i].satellite_id]

\* A Receiver that gives no new Pipeline to a satellite it has dropped.
InstallUnlessDroppedBefore(acq) ==
    IF acq = <<>> \/ acq[1].satellite_id \in ever_dropped
    THEN /\ pipelines' = pipelines
         /\ err' = err
         /\ todo' = PipelineList(pipelines')
         /\ pc' = "pipelines"
    ELSE IF acq[1].satellite_id \in PipelineIds(pipelines)
         THEN /\ err' = "InvariantError: already tracked satellite"
              /\ pc' = "crashed"
              /\ UNCHANGED <<pipelines, todo>>
         ELSE /\ pipelines' = Append(pipelines, NewPipeline(acq[1].satellite_id))
              /\ err' = err
              /\ todo' = PipelineList(pipelines')
              /\ pc' = "pipelines"

\* Receiver lines 58-74 for a returned acquisition acq.
Install(acq) ==
    IF acq = <<>>
    THEN /\ pipelines' = pipelines
         /\ err' = err
         /\ todo' = PipelineList(pipelines')
         /\ pc' = "pipelines"
    ELSE IF acq[1].satellite_id \in PipelineIds(pipelines)
         THEN /\ err' = "InvariantError: already tracked satellite"
              /\ pc' = "crashed"
              /\ UNCHANGED <<pipelines, todo>>
         ELSE /\ pipelines' = Append(pipelines, NewPipeline(acq[1].satellite_id))
              /\ err' = err
              /\ todo' = PipelineList(pipelines')
              /\ pc' = "pipelines"

\* The part common to both acquirers, given _get_acquisition's result.
AfterGetAcquisition(res) ==
    /\ result' = res
    /\ last_result_at' =
          IF res = <<>> THEN last_result_at
          ELSE [last_result_at EXCEPT ![res[1].satellite_id] = now']
    /\ prev_result_at' =
          IF target' = NoSat THEN MinTimestamp ELSE last_result_at[target']
    /\ next_acquisition_at' = BumpNextAcquisitionAt(next_acquisition_at, res, now')
    /\ acquisition' = ReturnedAcquisition(res)
    /\ Install(acquisition')

\* A block arrives (the stream of a file ends after MaxTime blocks).
StartStep(endless) ==
    /\ pc = "acquire"
    /\ err = "none"
    /\ endless \/ now < MaxTime
    /\ now' = NextEndTimestamp(now, endless)
    /\ samples' = Min(samples + 1, MS_OF_SAMPLES_REQUIRED_TO_PERFORM_ACQUISITION)
    /\ tracked_satellite_ids' = PipelineIds(pipelines)
    /\ UNCHANGED <<mode, fed, raised, raised_by, dropped, ever_dropped, solved, solver_ids,
                   solutions, ms_since_http, worldVars, compVars>>

\* Not enough samples yet (acquirer.py line 96).
AcquireTooFewSamples(endless) ==
    /\ StartStep(endless)
    /\ samples' < MS_OF_SAMPLES_REQUIRED_TO_PERFORM_ACQUISITION
    /\ target' = NoSat
    /\ AfterGetAcquisition(<<>>)
    /\ UNCHANGED <<waiting, inflight, pipeVars>>

\* MainProcessAcquirer._get_acquisition.
AcquireInMainProcess(endless) ==
    /\ StartStep(endless)
    /\ mode = "main"
    /\ samples' >= MS_OF_SAMPLES_REQUIRED_TO_PERFORM_ACQUISITION
    /\ target' = _get_next_acquisition_target(
                    next_acquisition_at, tracked_satellite_ids', now')
    /\ IF target' # NoSat
       THEN \E strength \in Strengths :
                AfterGetAcquisition(<<Acquisition(target', strength)>>)
       ELSE AfterGetAcquisition(<<>>)
    /\ UNCHANGED <<waiting, inflight, pipeVars>>

\* SubprocessAcquirer._get_acquisition while waiting (lines 187-193): a
\* non-blocking poll, and the receipt of the result if there is one.
SubprocessPoll ==
    /\ target' = NoSat
    /\ IF toMain # <<>>
       THEN /\ toMain' = Tail(toMain)
            /\ waiting' = FALSE
            /\ inflight' = NoSat
            /\ AfterGetAcquisition(<<Head(toMain)>>)
       ELSE /\ UNCHANGED <<toMain, waiting, inflight>>
            /\ AfterGetAcquisition(<<>>)
    /\ UNCHANGED <<toWorker, workerJob>>

\* A dispatch that does not record that a job is outstanding.
SubprocessDispatchUnrecorded ==
    /\ target' = _get_next_acquisition_target(
                    next_acquisition_at, tracked_satellite_ids', now')
    /\ IF target' # NoSat
       THEN /\ toWorker' = Append(toWorker, target')
            /\ inflight' = target'
       ELSE UNCHANGED <<toWorker, inflight>>
    /\ waiting' = waiting
    /\ AfterGetAcquisition(<<>>)
    /\ UNCHANGED <<toMain, workerJob>>

\* SubprocessAcquirer._get_acquisition while not waiting (lines 195-204):
\* the next target, if any, is sent to the worker.
SubprocessDispatch ==
    /\ target' = _get_next_acquisition_target(
                    next_acquisition_at, tracked_satellite_ids', now')
    /\ IF target' # NoSat
       THEN /\ toWorker' = Append(toWorker, target')
            /\ waiting' = TRUE
            /\ inflight' = target'
       ELSE UNCHANGED <<toWorker, waiting, inflight>>
    /\ AfterGetAcquisition(<<>>)
    /\ UNCHANGED <<toMain, workerJob>>

\* SubprocessAcquirer._get_acquisition.
AcquireInSubprocess(endless) ==
    /\ StartStep(endless)
    /\ mode = "subprocess"
    /\ samples' >= MS_OF_SAMPLES_REQUIRED_TO_PERFORM_ACQUISITION
    /\ IF waiting THEN SubprocessPoll ELSE SubprocessDispatch

(***************************************************************************)
(* _run_subprocess: the worker receives a job (the satellite id; the       *)
(* samples are not represented), then sends its Acquisition.  The worker   *)
(* is a daemon: it ends with the main process.                             *)
(***************************************************************************)
WorkerReceive ==
    /\ mode = "subprocess"
    /\ err = "none"
    /\ workerJob = <<>>
    /\ toWorker # <<>>
    /\ workerJob' = <<Head(toWorker)>>
    /\ toWorker' = Tail(toWorker)
    /\ UNCHANGED <<acqVars, toMain, worldVars, recvVars, compVars>>

\* A worker that answers a job with the Acquisition of any satellite.
WorkerResultsAnySatellite(job) ==
    {Acquisition(si, strength) : si \in ALL_SATELLITE_IDS, strength \in Strengths}

\* _acquire_satellite's result for the job: the job's satellite, any strength.
WorkerResults(job) == {Acquisition(job, strength) : strength \in Strengths}

WorkerSend ==
    /\ mode = "subprocess"
    /\ err = "none"
    /\ workerJob # <<>>
    /\ \E r \in WorkerResults(workerJob[1]) : toMain' = Append(toMain, r)
    /\ workerJob' = <<>>
    /\ UNCHANGED <<acqVars, toWorker, worldVars, recvVars, compVars>>

(***************************************************************************)
(* Receiver.handle_1ms_of_samples, lines 76-88: one iteration of the loop  *)
(* over the Pipelines.  What Pipeline.handle_1ms_of_samples does with the  *)
(* block is an input:                                                      *)
(*   - the Tracker always reports to World.handle_prns_tracked first;      *)
(*   - if the bit phase is not yet known, the bit integrator may attempt   *)
(*     to determine it (determine), which fails with UnknownBitPhaseError  *)
(*     or succeeds;                                                        *)
(*   - with the bit phase known, 300-bit candidates reach the              *)
(*     SubframeDecoder: several in the block that determines the bit phase *)
(*     (the buffered pseudobits), at most one in a later block.  Each      *)
(*     decoded subframe goes to World.handle_subframe and the decoding of  *)
(*     a further candidate may raise ParityError or (invalid preamble or   *)
(*     subframe id) InvariantError.                                        *)
(***************************************************************************)
Exceptions == {"none", "ParityError", "UnknownBitPhaseError", "InvariantError"}

RECURSIVE SeqsUpTo(_, _)
SeqsUpTo(S, n) ==
    IF n = 0 THEN {<<>>}
    ELSE SeqsUpTo(S, n - 1)
         \cup {Append(q, x) : q \in {r \in SeqsUpTo(S, n - 1) : Len(r) = n - 1},
                              x \in S}

PipelineOutcomes(bit_phase_known) ==
    {o \in [determine : BOOLEAN,
            subframes : SeqsUpTo(Subframes, MaxSubframesPerStep),
            exception : Exceptions] :
        /\ bit_phase_known => (~o.determine /\ Len(o.subframes) <= 1)
        /\ (~bit_phase_known /\ ~o.determine) =>
              (o.subframes = <<>> /\ o.exception = "none")
        /\ o.exception = "UnknownBitPhaseError" =>
              (o.determine /\ o.subframes = <<>>)}

\* The outcomes of a signal from which no subframe is ever decoded.
QuietOutcomes(bit_phase_known) ==
    {o \in PipelineOutcomes(bit_phase_known) : o.subframes = <<>>}

\* The World after the Pipeline of satellite_id handled the block with
\* outcome o (before any drop).
WorldAfterPipeline(w, satellite_id, o) ==
    handle_subframes(handle_prns_tracked(w, satellite_id), satellite_id,
                     o.subframes)

\* del self._pipelines_by_satellite_id[satellite_id]
RemovePipeline(ps, satellite_id) ==
    SelectSeq(ps, LAMBDA p : p.satellite_id # satellite_id)

\* A Receiver that catches only the ParityError of a Pipeline.
CaughtParityOnly == {"ParityError"}

\* A Receiver that catches every exception of a Pipeline.
CaughtAll == {"ParityError", "UnknownBitPhaseError", "InvariantError"}

\* Which exceptions of a Pipeline the Receiver catches (receiver.py 79-88).
Caught == {"ParityError", "UnknownBitPhaseError"}

SetBitPhaseKnown(ps, satellite_id) ==
    [i \in 1..Len(ps) |->
        IF ps[i].satellite_id = satellite_id
        THEN [ps[i] EXCEPT !.bit_phase_known = TRUE] ELSE ps[i]]

BitPhaseKnown(ps, satellite_id) ==
    \E i \in 1..Len(ps) :
        ps[i].satellite_id = satellite_id /\ ps[i].bit_phase_known

\* Receiver._drop_satellite.
Receiver_drop_satellite(w, satellite_id) ==
    /\ pipelines' = RemovePipeline(pipelines, satellite_id)
    /\ pending' = drop_satellite(w, satellite_id).pending
    /\ params' = drop_satellite(w, satellite_id).params
    /\ dropped' = dropped \cup {satellite_id}
    /\ ever_dropped' = ever_dropped \cup {satellite_id}

\* One iteration, the Pipeline's outcome being o.
FeedHead(o) ==
    LET satellite_id == Head(todo)
        w == WorldAfterPipeline(
                [pending |-> pending, params |-> params,
                 invariant_failed |-> FALSE], satellite_id, o)
    IN  /\ fed' = fed \cup {satellite_id}
        /\ raised' = IF w.invariant_failed THEN "InvariantError"
                      ELSE o.exception
        /\ raised_by' = satellite_id
        /\ IF w.invariant_failed \/ o.exception \notin Caught \cup {"none"}
           THEN \* not caught: the exception leaves handle_1ms_of_samples
                /\ err' = "InvariantError"
                /\ pc' = "crashed"
                /\ pending' = w.pending
                /\ params' = w.params
                /\ UNCHANGED <<pipelines, todo, dropped, ever_dropped>>
           ELSE /\ err' = err
                /\ todo' = Tail(todo)
                /\ pc' = IF todo' = <<>> THEN "solve" ELSE "pipelines"
                /\ IF o.exception \in Caught
                   THEN Receiver_drop_satellite(w, satellite_id)
                   ELSE /\ pipelines' =
                             IF o.determine
                             THEN SetBitPhaseKnown(pipelines, satellite_id)
                             ELSE pipelines
                        /\ pending' = w.pending
                        /\ params' = w.params
                        /\ UNCHANGED <<dropped, ever_dropped>>

FeedPipeline ==
    /\ pc = "pipelines"
    /\ err = "none"
    /\ todo # <<>>
    /\ \E o \in PipelineOutcomes(BitPhaseKnown(pipelines, Head(todo))) :
          FeedHead(o)
    /\ UNCHANGED <<acqVars, pipeVars, solver_ids, solved, solutions,
                   ms_since_http, compVars>>

\* The same with a signal from which no subframe is decoded.
FeedPipelineQuiet ==
    /\ pc = "pipelines"
    /\ err = "none"
    /\ todo # <<>>
    /\ \E o \in QuietOutcomes(BitPhaseKnown(pipelines, Head(todo))) :
          FeedHead(o)
    /\ UNCHANGED <<acqVars, pipeVars, solver_ids, solved, solutions,
                   ms_since_http, compVars>>

\* The loop is over an empty list.
NoPipelines ==
    /\ pc = "pipelines"
    /\ err = "none"
    /\ todo = <<>>
    /\ pc' = "solve"
    /\ UNCHANGED <<acqVars, pipeVars, worldVars, err, pipelines, todo, fed,
                   raised, raised_by, dropped, ever_dropped, solver_ids, solved, solutions,
                   ms_since_http, compVars>>

(***************************************************************************)
(* Receiver.handle_1ms_of_samples, lines 90-96: the solver.                *)
(***************************************************************************)
Solve ==
    /\ pc = "solve"
    /\ err = "none"
    /\ solver_ids' = compute_solution_satellite_ids(params)
    /\ solved' = TRUE
    /\ solutions' =
          IF Cardinality(solver_ids') >= MinSatellitesForSolution
          THEN Min(solutions + 1, SOLUTION_HISTORY_SIZE)
          ELSE solutions
    /\ pc' = "http"
    /\ UNCHANGED <<acqVars, pipeVars, worldVars, err, pipelines, todo, fed,
                   raised, raised_by, dropped, ever_dropped, ms_since_http, compVars>>

(***************************************************************************)
(* Receiver.handle_1ms_of_samples, lines 98-102: the telemetry snapshot;   *)
(* then the handler returns and its locals are gone.                       *)
(***************************************************************************)
SendHttpData ==
    /\ pc = "http"
    /\ err = "none"
    /\ ms_since_http' =
          IF ms_since_http + 1 = HTTP_UPDATE_INTERVAL_MS
          THEN 0 ELSE ms_since_http + 1
    /\ pc' = "acquire"
    /\ target' = NoSat
    /\ result' = <<>>
    /\ acquisition' = <<>>
    /\ prev_result_at' = MinTimestamp
    /\ fed' = {}
    /\ raised' = "none"
    /\ raised_by' = NoSat
    /\ dropped' = {}
    /\ ever_dropped' = ever_dropped
    /\ solver_ids' = {}
    /\ solved' = FALSE
    /\ UNCHANGED <<mode, now, samples, next_acquisition_at,
                   tracked_satellite_ids, waiting, inflight, last_result_at,
                   pipeVars, worldVars, err, pipelines, todo, solutions,
                   compVars>>

(***************************************************************************)
(* Tracker (tracker.py): the delay-locked loop of the code phase and the   *)
(* counting of PRN-code trailing edges.  The phase is counted in whole     *)
(* half-chips.  The loop's correction of one block,                        *)
(*   discriminator * PRN_CODE_PHASE_SHIFT_TRACKING_LOOP_GAIN               *)
(*     + half_chips_due_to_doppler_effect,                                 *)
(* is an input.                                                            *)
(***************************************************************************)
\* len(self._prn_code): two samples for each of the 1023 chips.
PRN_CODE_LENGTH == 2046

\* Tracker steps taken in the model of the Tracker alone.
MaxTrackerSteps == 3

\* Corrections: none, a half-chip either way, and more than a code length
\* either way.
Corrections ==
    {0, 1, -1, PRN_CODE_LENGTH + 1, -(PRN_CODE_LENGTH + 1)}

\* Tracker.__init__, lines 91-95.
InitialSide(phase) ==
    IF 2 * phase > PRN_CODE_LENGTH THEN "LEFT" ELSE "RIGHT"

\* Tracker._track_prn_code_phase_shift, lines 241-260: the new phase and the
\* side over which it wrapped ("None" if it did not).
_track_prn_code_phase_shift(phase, correction) ==
    LET shifted == phase - correction
    IN  IF shifted < 0
        THEN [phase |-> shifted + PRN_CODE_LENGTH, wrap_side |-> "LEFT"]
        ELSE IF shifted >= PRN_CODE_LENGTH
             THEN [phase |-> shifted - PRN_CODE_LENGTH, wrap_side |-> "RIGHT"]
             ELSE [phase |-> shifted, wrap_side |-> "None"]

\* Tracker.handle_1ms_of_samples, lines 130-143: the edges seen in the block.
PrnCountOf(ws) ==
    CASE ws = "None" -> 1
      [] ws = "LEFT" -> 2
      [] ws = "RIGHT" -> 0

\* A side that is assigned in every step.
SideAfterAlways(old_side, ws) == ws

\* Tracker.handle_1ms_of_samples, lines 130-143: self._side after the step.
SideAfter(old_side, ws) == IF ws = "None" THEN old_side ELSE ws

\* A report that is made only when an edge was seen.
PrnsReportedAfterIfSeen(reported, count) ==
    IF count > 0 THEN reported + 1 ELSE reported

\* Tracker.handle_1ms_of_samples, lines 145-156: the call of
\* World.handle_prns_tracked is unconditional.
PrnsReportedAfter(reported, count) == reported + 1

\* Tracker.handle_1ms_of_samples, up to the report to the World.
TrackerStep ==
    /\ tracker_steps < MaxTrackerSteps
    /\ \E correction \in Corrections :
         LET r == _track_prn_code_phase_shift(prn_code_phase_shift, correction)
         IN  /\ prn_code_phase_shift' = r.phase
             /\ wrap_side' = r.wrap_side
             /\ prn_count' = PrnCountOf(r.wrap_side)
             /\ side' = SideAfter(side, r.wrap_side)
             /\ unwrapped' = prn_code_phase_shift - correction
             /\ prns_reported' =
                   PrnsReportedAfter(prns_reported, PrnCountOf(r.wrap_side))
    /\ tracker_steps' = tracker_steps + 1
    /\ UNCHANGED <<acqVars, pipeVars, worldVars, recvVars, fullWorldVars,
                   bitVars, symVars, fnVars>>

\* No Tracker is being modelled.
TrackerIdle ==
    /\ prn_code_phase_shift = 0
    /\ side = "RIGHT"
    /\ wrap_side = "None"
    /\ prn_count = 0
    /\ tracker_steps = 0
    /\ unwrapped = 0
    /\ prns_reported = 0

(***************************************************************************)
(* The World's timing bookkeeping for one satellite (world.py), in full:   *)
(* prn_count, tow_count and side are kept as values.  The Tracker reports  *)
(* once per block; while the satellite has SatelliteParameters a subframe  *)
(* arrives with every PRN_CODES_PER_SUBFRAME-th report (300 bits of 20     *)
(* pseudosymbols), while it is pending subframes arrive in any order and   *)
(* at any time.                                                            *)
(***************************************************************************)
\* The number of PRN codes per subframe (the program has 6000: 300 bits of
\* 20 codes).
CodesPerSubframe == 6
\* SatelliteParameters.handle_subframe: self.prn_count -= 6000.
PRN_CODES_PER_SUBFRAME == CodesPerSubframe

\* Reports of the Tracker while the satellite is pending.
MaxPendingSteps == 2
\* Steps in which the code phase wraps.
MaxWraps == 2
\* Subframes received.
MaxWorldSubframes == 5

SubframeIds == 1..5
WrapSides == {"None", "LEFT", "RIGHT"}

\* A decoded subframe: its id and the TOW count of its handover word.
Subframe(subframe_id, tow_count_msbs) ==
    [subframe_id |-> subframe_id, tow_count_msbs |-> tow_count_msbs]

\* PendingSatelliteParameters(): every field is None.
NewPendingSatelliteParametersFull ==
    [prn_code_trailing_edge_timestamp |-> FALSE, side |-> "None",
     subframe_1 |-> FALSE, subframe_2 |-> FALSE, subframe_3 |-> FALSE,
     tow_count |-> <<>>]

PendingSatelliteParameters_handle_subframe(psp, subframe) ==
    LET t == [psp EXCEPT !.tow_count = <<subframe.tow_count_msbs>>]
    IN  CASE subframe.subframe_id = 1 -> [t EXCEPT !.subframe_1 = TRUE]
          [] subframe.subframe_id = 2 -> [t EXCEPT !.subframe_2 = TRUE]
          [] subframe.subframe_id = 3 -> [t EXCEPT !.subframe_3 = TRUE]
          [] OTHER -> t

\* A promotion that does not wait for a report of the Tracker.
PendingSatelliteParameters_to_satellite_parameters_unobserved(psp) ==
    IF \/ ~psp.subframe_1
       \/ ~psp.subframe_2
       \/ ~psp.subframe_3
       \/ psp.tow_count = <<>>
    THEN <<>>
    ELSE <<[prn_count |-> IF psp.side = "RIGHT" THEN -1 ELSE 0,
            tow_count |-> psp.tow_count[1]]>>

\* A promotion that starts the count at 0 whatever the side.
PendingSatelliteParameters_to_satellite_parameters_from_zero(psp) ==
    IF \/ ~psp.prn_code_trailing_edge_timestamp
       \/ psp.side = "None"
       \/ ~psp.subframe_1
       \/ ~psp.subframe_2
       \/ ~psp.subframe_3
       \/ psp.tow_count = <<>>
    THEN <<>>
    ELSE <<[prn_count |-> 0, tow_count |-> psp.tow_count[1]]>>

\* PendingSatelliteParameters.to_satellite_parameters (<<>> is None).
PendingSatelliteParameters_to_satellite_parameters(psp) ==
    IF \/ ~psp.prn_code_trailing_edge_timestamp
       \/ psp.side = "None"
       \/ ~psp.subframe_1
       \/ ~psp.subframe_2
       \/ ~psp.subframe_3
       \/ psp.tow_count = <<>>
    THEN <<>>
    ELSE <<[prn_count |-> IF psp.side = "RIGHT" THEN -1 ELSE 0,
            tow_count |-> psp.tow_count[1]]>>

\* A subframe that resets the count.
SatelliteParameters_handle_subframe_resetting(sp, subframe) ==
    [sp EXCEPT !.prn_count = 0,
               !.tow_count = subframe.tow_count_msbs]

\* SatelliteParameters.handle_subframe, lines 159-168: the timing fields.
SatelliteParameters_handle_subframe_timing(sp, subframe) ==
    [sp EXCEPT !.prn_count = @ - PRN_CODES_PER_SUBFRAME,
               !.tow_count = subframe.tow_count_msbs]

World_maybe_promote_pending_satellite_parameters(fw) ==
    IF fw.pending = <<>> \/ fw.params # <<>>
    THEN [fw EXCEPT !.invariant_failed = TRUE]
    ELSE LET sp == PendingSatelliteParameters_to_satellite_parameters(
                      fw.pending[1])
         IN  IF sp # <<>>
             THEN [fw EXCEPT !.params = sp, !.pending = <<>>]
             ELSE fw

\* A World that counts one edge for every report.
World_handle_prns_tracked_one_each(fw, count, side_arg) ==
    LET w1 == IF fw.params # <<>>
              THEN [fw EXCEPT !.params[1].prn_count = @ + 1]
              ELSE IF fw.pending = <<>>
                   THEN [fw EXCEPT !.pending =
                                      <<NewPendingSatelliteParametersFull>>]
                   ELSE fw
    IN  IF w1.pending # <<>>
        THEN World_maybe_promote_pending_satellite_parameters(
                [w1 EXCEPT !.pending[1].prn_code_trailing_edge_timestamp = TRUE,
                           !.pending[1].side = side_arg])
        ELSE w1

\* World.handle_prns_tracked.
World_handle_prns_tracked(fw, count, side_arg) ==
    LET w1 == IF fw.params # <<>>
              THEN [fw EXCEPT !.params[1].prn_count = @ + count]
              ELSE IF fw.pending = <<>>
                   THEN [fw EXCEPT !.pending =
                                      <<NewPendingSatelliteParametersFull>>]
                   ELSE fw
    IN  IF w1.pending # <<>>
        THEN World_maybe_promote_pending_satellite_parameters(
                [w1 EXCEPT !.pending[1].prn_code_trailing_edge_timestamp = TRUE,
                           !.pending[1].side = side_arg])
        ELSE w1

\* World.handle_subframe.
World_handle_subframe(fw, subframe) ==
    LET w1 == IF fw.params # <<>>
              THEN [fw EXCEPT !.params[1] =
                      SatelliteParameters_handle_subframe_timing(@, subframe)]
              ELSE IF fw.pending = <<>>
                   THEN [fw EXCEPT !.pending =
                                      <<NewPendingSatelliteParametersFull>>]
                   ELSE fw
    IN  IF w1.pending # <<>>
        THEN World_maybe_promote_pending_satellite_parameters(
                [w1 EXCEPT !.pending[1] =
                    PendingSatelliteParameters_handle_subframe(@, subframe)])
        ELSE w1

\* The World of the satellite as a value.
FullWorld ==
    [pending |-> w_pending, params |-> w_params, invariant_failed |-> FALSE]

\* A block: the Tracker's step, reduced to whether the phase wrapped, and its
\* report to the World.
WorldPrnsTracked ==
    /\ ~w_failed
    /\ IF w_params # <<>>
       THEN w_steps < PRN_CODES_PER_SUBFRAME
       ELSE w_pending_steps < MaxPendingSteps
    /\ \E ws \in WrapSides :
          /\ ws # "None" => w_wraps < MaxWraps
          /\ LET count == PrnCountOf(ws)
                 side_arg == SideAfter(side, ws)
                 fw == World_handle_prns_tracked(FullWorld, count, side_arg)
             IN  /\ wrap_side' = ws
                 /\ prn_count' = count
                 /\ side' = side_arg
                 /\ w_pending' = fw.pending
                 /\ w_params' = fw.params
                 /\ w_failed' = fw.invariant_failed
                 /\ w_promoted_now' = (w_params = <<>> /\ fw.params # <<>>)
                 /\ w_last_side' = side_arg
                 /\ w_sum' = w_sum + count
          /\ w_wraps' = IF ws # "None" THEN w_wraps + 1 ELSE w_wraps
          /\ w_lefts' = IF ws = "LEFT" THEN w_lefts + 1 ELSE w_lefts
          /\ w_rights' = IF ws = "RIGHT" THEN w_rights + 1 ELSE w_rights
    /\ w_call' = "prns"
    /\ w_subframe' = <<>>
    /\ w_before' = IF w_params # <<>> THEN <<w_params[1].prn_count>> ELSE <<>>
    /\ w_observed' = TRUE
    /\ w_pending_steps' =
          IF w_params = <<>> THEN w_pending_steps + 1 ELSE w_pending_steps
    /\ w_steps' = w_steps + 1
    /\ w_closed' = <<>>
    /\ UNCHANGED <<w_got, w_subframes, w_after_subframe>>
    /\ UNCHANGED <<prn_code_phase_shift, tracker_steps, unwrapped,
                   prns_reported>>
    /\ UNCHANGED <<acqVars, pipeVars, worldVars, recvVars, bitVars, symVars,
                   fnVars>>

\* A subframe is decoded from the satellite's signal; its TOW count is one
\* more than that of the subframe before it.
WorldSubframe ==
    /\ ~w_failed
    /\ w_subframes < MaxWorldSubframes
    /\ w_params # <<>> => w_steps = PRN_CODES_PER_SUBFRAME
    /\ \E subframe_id \in SubframeIds :
          LET subframe == Subframe(subframe_id, w_subframes + 1)
              fw == World_handle_subframe(FullWorld, subframe)
          IN  /\ w_pending' = fw.pending
              /\ w_params' = fw.params
              /\ w_failed' = fw.invariant_failed
              /\ w_promoted_now' = (w_params = <<>> /\ fw.params # <<>>)
              /\ w_subframe' = <<subframe>>
              /\ w_got' = w_got \cup {subframe_id}
              /\ w_after_subframe' =
                    IF fw.params # <<>> THEN <<fw.params[1].prn_count>>
                    ELSE <<>>
              /\ w_closed' =
                    IF w_params # <<>> /\ fw.params # <<>>
                    THEN <<[steps |-> w_steps, lefts |-> w_lefts,
                            rights |-> w_rights, sum |-> w_sum,
                            first |-> w_after_subframe,
                            second |-> fw.params[1].prn_count]>>
                    ELSE <<>>
    /\ w_call' = "subframe"
    /\ w_before' = IF w_params # <<>> THEN <<w_params[1].prn_count>> ELSE <<>>
    /\ w_subframes' = w_subframes + 1
    /\ w_steps' = 0
    /\ w_lefts' = 0
    /\ w_rights' = 0
    /\ w_sum' = 0
    /\ UNCHANGED <<w_observed, w_last_side, w_pending_steps, w_wraps>>
    /\ UNCHANGED trackerVars
    /\ UNCHANGED <<acqVars, pipeVars, worldVars, recvVars, bitVars, symVars,
                   fnVars>>

\* The World holds nothing of the satellite.
FullWorldIdle ==
    /\ w_pending = <<>>
    /\ w_params = <<>>
    /\ w_failed = FALSE
    /\ w_call = "none"
    /\ w_subframe = <<>>
    /\ w_before = <<>>
    /\ w_promoted_now = FALSE
    /\ w_got = {}
    /\ w_observed = FALSE
    /\ w_last_side = "None"
    /\ w_subframes = 0
    /\ w_pending_steps = 0
    /\ w_wraps = 0
    /\ w_steps = 0
    /\ w_lefts = 0
    /\ w_rights = 0
    /\ w_sum = 0
    /\ w_after_subframe = <<>>
    /\ w_closed = <<>>

(***************************************************************************)
(* PseudobitIntegrator (pseudobit_integrator.py) inside the Pipeline of    *)
(* one satellite.  A subframe has BITS_PER_SUBFRAME bits and starts with   *)
(* the TLM preamble; the model keeps the first PreambleBits bits of the    *)
(* preamble and SubframeBits bits per subframe in place of 8 and 300.      *)
(* Pseudobits are -1 or 1; bit_phase is 0 while it is None.                *)
(***************************************************************************)
\* Bits per subframe in the model.
SubframeBits == 3
\* Bits of the TLM preamble kept in the model.
PreambleBits == 2
\* handle_pseudobit calls followed after the bit phase is determined.
MaxBitsAfter == 4

BITS_PER_SUBFRAME == SubframeBits
PREAMBLES_REQUIRED_TO_DETERMINE_BIT_PHASE == 3
_PSEUDOBITS_REQUIRED_TO_DETERMINE_BIT_PHASE ==
    (PREAMBLES_REQUIRED_TO_DETERMINE_BIT_PHASE + 1) * BITS_PER_SUBFRAME

_TLM_PREAMBLE == SubSeq(<<1, -1, -1, -1, 1, -1, 1, 1>>, 1, PreambleBits)
_INVERSE_TLM_PREAMBLE == SubSeq(<<-1, 1, 1, 1, -1, 1, -1, -1>>, 1, PreambleBits)

Pseudobits == {-1, 1}

\* The loop of _all_subframes_start_with_preamble from index i on:
\* for i in range(0, len(pseudobits) - (BITS_PER_SUBFRAME - 1), BITS_PER_SUBFRAME).
RECURSIVE _all_subframes_from(_, _, _)
_all_subframes_from(preamble, bits, i) ==
    IF i >= Len(bits) - (BITS_PER_SUBFRAME - 1) THEN TRUE
    ELSE IF SubSeq(bits, i + 1, i + Len(preamble)) # preamble THEN FALSE
    ELSE _all_subframes_from(preamble, bits, i + BITS_PER_SUBFRAME)

\* "invariant" if one of the two invariant() calls fails, else the result.
_all_subframes_start_with_preamble(preamble, bits) ==
    IF Len(preamble) > Len(bits) \/ Len(bits) < BITS_PER_SUBFRAME
    THEN "invariant"
    ELSE IF _all_subframes_from(preamble, bits, 0) THEN "yes" ELSE "no"

\* The loop of _determine_bit_phase from offset on.  The result is the new
\* buffer, the bit phase, the offset chosen (<<>> if none) and the exception.
RECURSIVE _determine_bit_phase_from(_, _)
_determine_bit_phase_from(buf, offset) ==
    IF offset >= BITS_PER_SUBFRAME
    THEN [pseudobits |-> buf, bit_phase |-> 0, offset |-> <<>>,
          exception |-> "UnknownBitPhaseError"]
    ELSE LET bits == SubSeq(buf, offset + 1, Len(buf))
             normal == _all_subframes_start_with_preamble(_TLM_PREAMBLE, bits)
             inverse == _all_subframes_start_with_preamble(
                            _INVERSE_TLM_PREAMBLE, bits)
         IN  IF normal = "invariant" \/ (normal = "no" /\ inverse = "invariant")
             THEN [pseudobits |-> buf, bit_phase |-> 0, offset |-> <<>>,
                   exception |-> "InvariantError"]
             ELSE IF normal = "yes"
             THEN [pseudobits |-> bits, bit_phase |-> 1,
                   offset |-> <<offset>>, exception |-> "none"]
             ELSE IF inverse = "yes"
             THEN [pseudobits |-> bits, bit_phase |-> -1,
                   offset |-> <<offset>>, exception |-> "none"]
             ELSE _determine_bit_phase_from(buf, offset + 1)

\* A determination that leaves the buffer as it is.
_determine_bit_phase_keeping(buf, phase) ==
    IF phase # 0
    THEN [pseudobits |-> buf, bit_phase |-> phase, offset |-> <<>>,
          exception |-> "InvariantError"]
    ELSE [_determine_bit_phase_from(buf, 0) EXCEPT !.pseudobits = buf]

\* PseudobitIntegrator._determine_bit_phase.
_determine_bit_phase(buf, phase) ==
    IF phase # 0
    THEN [pseudobits |-> buf, bit_phase |-> phase, offset |-> <<>>,
          exception |-> "InvariantError"]
    ELSE _determine_bit_phase_from(buf, 0)

\* A determination attempted whenever a subframe's worth is buffered.
ShouldDetermineBitPhaseEverySubframe(buf, phase) ==
    Len(buf) >= BITS_PER_SUBFRAME

\* The condition under which handle_pseudobit calls _determine_bit_phase.
ShouldDetermineBitPhase(buf, phase) ==
    /\ Len(buf) >= _PSEUDOBITS_REQUIRED_TO_DETERMINE_BIT_PHASE
    /\ phase = 0

\* A resolution that takes every pseudobit as it is.
_resolve_bit_ignoring_phase(phase, pseudobit) ==
    IF pseudobit = -1 THEN 0 ELSE 1

\* PseudobitIntegrator._resolve_bit.
_resolve_bit(phase, pseudobit) ==
    IF phase = -1
    THEN (IF pseudobit = -1 THEN 1 ELSE 0)
    ELSE (IF pseudobit = -1 THEN 0 ELSE 1)

\* A loop that hands on one candidate and leaves its bits in the buffer.
_group_bits_without_deleting(st, phase, bad, n) ==
    IF Len(st.pseudobits) >= BITS_PER_SUBFRAME /\ phase # 0
    THEN [st EXCEPT
            !.drained =
                [i \in 1..BITS_PER_SUBFRAME |->
                    _resolve_bit(phase, st.pseudobits[i])],
            !.candidates = 1]
    ELSE st

\* The while loop of handle_pseudobit, about to take candidate number n; the
\* SubframeDecoder raises ParityError for candidate number bad (0: for none).
RECURSIVE _group_bits_into_subframes(_, _, _, _)
_group_bits_into_subframes(st, phase, bad, n) ==
    IF Len(st.pseudobits) >= BITS_PER_SUBFRAME /\ phase # 0
    THEN LET taken == SubSeq(st.pseudobits, 1, BITS_PER_SUBFRAME)
             bits == [i \in 1..Len(taken) |-> _resolve_bit(phase, taken[i])]
             st1 == [pseudobits |-> SubSeq(st.pseudobits, BITS_PER_SUBFRAME + 1,
                                           Len(st.pseudobits)),
                     drained |-> st.drained \o bits,
                     candidates |-> st.candidates + 1,
                     exception |-> "none"]
         IN  IF n = bad
             THEN [st1 EXCEPT !.exception = "ParityError"]
             ELSE _group_bits_into_subframes(st1, phase, bad, n + 1)
    ELSE st

\* PseudobitIntegrator.handle_pseudobit.
handle_pseudobit(buf, phase, pseudobit, bad) ==
    LET appended == Append(buf, pseudobit)
        call == ShouldDetermineBitPhase(appended, phase)
        d == IF call THEN _determine_bit_phase(appended, phase)
             ELSE [pseudobits |-> appended, bit_phase |-> phase,
                   offset |-> <<>>, exception |-> "none"]
        g == IF d.exception = "none"
             THEN _group_bits_into_subframes(
                      [pseudobits |-> d.pseudobits, drained |-> <<>>,
                       candidates |-> 0, exception |-> "none"],
                      d.bit_phase, bad, 1)
             ELSE [pseudobits |-> d.pseudobits, drained |-> <<>>,
                   candidates |-> 0, exception |-> d.exception]
    IN  [pseudobits |-> g.pseudobits, bit_phase |-> d.bit_phase,
         called |-> call, from |-> appended, offset |-> d.offset,
         drained |-> g.drained, candidates |-> g.candidates,
         exception |-> g.exception]

\* One pseudobit reaches the PseudobitIntegrator of the Pipeline at the head
\* of the Receiver's loop; what it raises reaches the Receiver's try.
HandlePseudobit ==
    /\ pc = "pipelines"
    /\ err = "none"
    /\ todo # <<>>
    /\ Head(todo) \in PipelineIds(pipelines)
    /\ bit_since < MaxBitsAfter
    /\ \E pseudobit \in Pseudobits,
          bad \in 0..(PREAMBLES_REQUIRED_TO_DETERMINE_BIT_PHASE + 1) :
          \E r \in {handle_pseudobit(pseudobits, bit_phase, pseudobit, bad)} :
          LET satellite_id == Head(todo)
              w == [pending |-> pending, params |-> params,
                    invariant_failed |-> FALSE]
          IN  /\ pseudobits' = r.pseudobits
              /\ bit_phase' = r.bit_phase
              /\ bit_determinations' =
                    bit_determinations + (IF r.called THEN 1 ELSE 0)
              /\ bit_determined_from' =
                    IF r.called THEN r.from ELSE bit_determined_from
              /\ bit_offset' = IF r.called THEN r.offset ELSE bit_offset
              /\ bit_drained' = r.drained
              /\ bit_candidates' = bit_candidates + r.candidates
              /\ bit_since' = IF bit_phase # 0 THEN bit_since + 1 ELSE 0
              /\ raised' = r.exception
              /\ raised_by' = satellite_id
              /\ IF r.exception \in Caught
                 THEN /\ Receiver_drop_satellite(w, satellite_id)
                      /\ UNCHANGED <<pc, err>>
                 ELSE IF r.exception # "none"
                 THEN /\ err' = r.exception
                      /\ pc' = "crashed"
                      /\ UNCHANGED <<pipelines, pending, params, dropped,
                                     ever_dropped>>
                 ELSE /\ pipelines' =
                           IF r.bit_phase # 0
                           THEN SetBitPhaseKnown(pipelines, satellite_id)
                           ELSE pipelines
                      /\ UNCHANGED <<pc, err, pending, params, dropped,
                                     ever_dropped>>
    /\ UNCHANGED <<acqVars, pipeVars, todo, fed, solver_ids, solved, solutions,
                   ms_since_http, trackerVars, fullWorldVars, symVars,
                   fnVars>>

\* A PseudobitIntegrator as constructed.
BitIdle ==
    /\ pseudobits = <<>>
    /\ bit_phase = 0
    /\ bit_determinations = 0
    /\ bit_determined_from = <<>>
    /\ bit_offset = <<>>
    /\ bit_drained = <<>>
    /\ bit_candidates = 0
    /\ bit_since = 0

(***************************************************************************)
(* PseudosymbolIntegrator (pseudosymbol_integrator.py) inside the Pipeline *)
(* of one satellite.  Pseudosymbols are -1 or 1.  The model has            *)
(* SymbolsPerBit pseudosymbols per bit in place of 20 and needs            *)
(* BoundaryBits bits' worth of them in place of 20 bits' worth before it   *)
(* looks for the bit boundary.                                             *)
(***************************************************************************)
\* Pseudosymbols per bit in the model.
SymbolsPerBit == 4
\* Bits' worth of pseudosymbols needed to look for the boundary in the model.
BoundaryBits == 2
\* Pseudosymbols buffered beyond that number while one phase is still rare.
SlackSymbols == 1
\* handle_pseudosymbol calls followed after the boundary is found.
MaxSymbolsAfter == 9

_PSEUDOSYMBOLS_PER_BIT == SymbolsPerBit
BITS_REQUIRED_TO_DETECT_BOUNDARIES == BoundaryBits
_PSEUDOSYMBOLS_REQUIRED_TO_DETECT_BOUNDARIES ==
    BITS_REQUIRED_TO_DETECT_BOUNDARIES * _PSEUDOSYMBOLS_PER_BIT

Pseudosymbols == {-1, 1}

\* Counter(elements)[x]
Counter(elements, x) ==
    Cardinality({i \in DOMAIN elements : elements[i] = x})

\* A test that is content with one pseudosymbol of a phase.
EnoughOfPhaseWithOne(n) == n >= 1

\* counter[x] >= _PSEUDOSYMBOLS_REQUIRED_PER_PHASE for a count n; the
\* constant is half of _PSEUDOSYMBOLS_REQUIRED_TO_DETECT_BOUNDARIES, a float.
EnoughOfPhase(n) == 2 * n >= _PSEUDOSYMBOLS_REQUIRED_TO_DETECT_BOUNDARIES

\* _chunks
_chunks(elements, chunk_size) ==
    [k \in 1..(Len(elements) \div chunk_size) |->
        SubSeq(elements, (k - 1) * chunk_size + 1, k * chunk_size)]

\* np.abs(np.sum(chunk)) for a chunk of -1s and 1s.
AbsSum(chunk) ==
    LET s == Counter(chunk, 1) - Counter(chunk, -1)
    IN  IF s < 0 THEN -s ELSE s

RECURSIVE SumOfAbsSums(_, _)
SumOfAbsSums(chunks, k) ==
    IF k = 0 THEN 0 ELSE SumOfAbsSums(chunks, k - 1) + AbsSum(chunks[k])

\* The score of an offset, np.mean(np.abs(np.sum(chunks, axis=1))), as the
\* fraction total / count; with no chunk it is nan.
OffsetScore(buf, offset) ==
    LET chunks == _chunks(SubSeq(buf, offset + 1, Len(buf)),
                          _PSEUDOSYMBOLS_PER_BIT)
    IN  [total |-> SumOfAbsSums(chunks, Len(chunks)), count |-> Len(chunks)]

\* np.argmax(offset_scores): the first offset whose score is nan, else the
\* first offset whose score no other score exceeds.
BestOffset(buf) ==
    LET offsets == 0..(_PSEUDOSYMBOLS_PER_BIT - 1)
        score(o) == OffsetScore(buf, o)
        nan(o) == score(o).count = 0
        exceeds(a, b) == a.total * b.count > b.total * a.count
        best(o) ==
            IF \E p \in offsets : nan(p)
            THEN nan(o) /\ \A p \in offsets : p < o => ~nan(p)
            ELSE /\ \A p \in offsets : ~exceeds(score(p), score(o))
                 /\ \A p \in offsets : p < o => exceeds(score(o), score(p))
    IN  CHOOSE o \in offsets : best(o)

\* PseudosymbolIntegrator._find_bit_boundary: the new buffer and how many
\* pseudosymbols were discarded.
_find_bit_boundary(buf) ==
    LET best_offset == BestOffset(buf)
    IN  [pseudosymbols |-> SubSeq(buf, best_offset + 1, Len(buf)),
         discarded |-> best_offset]

\* A vote that takes the group's first pseudosymbol.
most_common_first_seen(group) == group[1]

\* Counter(pseudosymbols).most_common(1)[0][0]: the value with the larger
\* count and, the counts being equal, the value the group starts with.
most_common(group) ==
    LET first == group[1]
    IN  IF Counter(group, -first) > Counter(group, first) THEN -first
        ELSE first

\* The while loop of handle_pseudosymbol.
RECURSIVE _group_pseudosymbols_into_bits(_, _)
_group_pseudosymbols_into_bits(st, found) ==
    IF Len(st.pseudosymbols) >= _PSEUDOSYMBOLS_PER_BIT /\ found
    THEN LET group == SubSeq(st.pseudosymbols, 1, _PSEUDOSYMBOLS_PER_BIT)
         IN  _group_pseudosymbols_into_bits(
                 [pseudosymbols |-> SubSeq(st.pseudosymbols,
                                           _PSEUDOSYMBOLS_PER_BIT + 1,
                                           Len(st.pseudosymbols)),
                  groups |-> Append(st.groups, group),
                  bits |-> Append(st.bits, most_common(group))],
                 found)
    ELSE st

\* PseudosymbolIntegrator.handle_pseudosymbol.
handle_pseudosymbol(buf, found, pseudosymbol) ==
    LET appended == Append(buf, pseudosymbol)
        find == /\ ~found
                /\ EnoughOfPhase(Counter(appended, -1))
                /\ EnoughOfPhase(Counter(appended, 1))
        f == IF find THEN _find_bit_boundary(appended)
             ELSE [pseudosymbols |-> appended, discarded |-> 0]
        g == _group_pseudosymbols_into_bits(
                 [pseudosymbols |-> f.pseudosymbols, groups |-> <<>>,
                  bits |-> <<>>],
                 found \/ find)
    IN  [pseudosymbols |-> g.pseudosymbols, bit_boundary_found |-> found \/ find,
         searched |-> find, from |-> appended, discarded |-> f.discarded,
         groups |-> g.groups, bits |-> g.bits]

\* The PseudobitIntegrator's buffer after handle_unresolved_bit was called
\* with each of bits, none of the calls reaching a determination.
RECURSIVE PseudobitsAfter(_, _)
PseudobitsAfter(buf, bits) ==
    IF bits = <<>> THEN buf
    ELSE PseudobitsAfter(handle_pseudobit(buf, 0, Head(bits), 0).pseudobits,
                         Tail(bits))

\* One pseudosymbol reaches the PseudosymbolIntegrator of the Pipeline at
\* the head of the Receiver's loop.  The Pipeline is followed while its
\* PseudobitIntegrator holds fewer bits than it needs for a determination.
HandlePseudosymbol ==
    /\ pc = "pipelines"
    /\ err = "none"
    /\ todo # <<>>
    /\ Head(todo) \in PipelineIds(pipelines)
    /\ bit_phase = 0
    /\ ~bit_boundary_found =>
          Len(pseudosymbols)
              < _PSEUDOSYMBOLS_REQUIRED_TO_DETECT_BOUNDARIES + SlackSymbols
    /\ bit_boundary_found => sym_since < MaxSymbolsAfter
    /\ \E pseudosymbol \in Pseudosymbols :
          \E r \in {handle_pseudosymbol(pseudosymbols, bit_boundary_found,
                                       pseudosymbol)} :
              /\ Len(pseudobits) + Len(r.bits)
                    < _PSEUDOBITS_REQUIRED_TO_DETERMINE_BIT_PHASE
              /\ pseudosymbols' = r.pseudosymbols
              /\ bit_boundary_found' = r.bit_boundary_found
              /\ sym_searches' = sym_searches + (IF r.searched THEN 1 ELSE 0)
              /\ sym_from' = r.from
              /\ sym_discarded' = r.discarded
              /\ sym_groups' = r.groups
              /\ sym_bits' = r.bits
              /\ sym_emitted' = sym_emitted + Len(r.bits)
              /\ sym_retained' =
                    IF bit_boundary_found THEN sym_retained + 1
                    ELSE IF r.searched THEN Len(r.from) - r.discarded
                    ELSE 0
              /\ sym_since' = IF bit_boundary_found THEN sym_since + 1 ELSE 0
              /\ pseudobits' = PseudobitsAfter(pseudobits, r.bits)
    /\ UNCHANGED <<bit_phase, bit_determinations, bit_determined_from,
                   bit_offset, bit_drained, bit_candidates, bit_since>>
    /\ UNCHANGED <<acqVars, pipeVars, worldVars, recvVars, trackerVars,
                   fullWorldVars, fnVars>>

\* A PseudosymbolIntegrator as constructed.
SymIdle ==
    /\ pseudosymbols = <<>>
    /\ bit_boundary_found = FALSE
    /\ sym_searches = 0
    /\ sym_from = <<>>
    /\ sym_discarded = 0
    /\ sym_groups = <<>>
    /\ sym_bits = <<>>
    /\ sym_emitted = 0
    /\ sym_retained = 0
    /\ sym_since = 0

(***************************************************************************)
(* The World and its solver under the calls the Pipelines of               *)
(* MinSatellitesForSolution satellites make: in each Receiver step any     *)
(* number of Pipelines report PRN codes, decode subframes 1 to 3 or are    *)
(* dropped, then compute_solution runs.  The Acquirer finds nothing.       *)
(***************************************************************************)
\* Receiver steps followed.
MaxSolverSteps == 3

\* Acquirer.handle_1ms_of_samples returns None.
SolverAcquirerIdle ==
    /\ pc = "acquire"
    /\ err = "none"
    /\ now < MaxSolverSteps
    /\ now' = now + 1
    /\ pc' = "pipelines"
    /\ UNCHANGED <<mode, samples, next_acquisition_at, tracked_satellite_ids,
                   waiting, inflight, target, result, acquisition,
                   last_result_at, prev_result_at, pipeVars, worldVars, err,
                   pipelines, todo, fed, raised, raised_by, dropped, ever_dropped,
                   solver_ids, solved, solutions, ms_since_http, compVars>>

\* One Pipeline's calls of the World in this step, or its removal; last
\* tells whether it is the last Pipeline of the loop.
SolverWorldCall ==
    /\ pc = "pipelines"
    /\ err = "none"
    /\ \E satellite_id \in 1..MinSatellitesForSolution,
          call \in {"track", "decode", "drop"},
          sv_health \in {0, 1},
          last \in BOOLEAN :
          \E w \in {[pending |-> pending, params |-> params,
                      invariant_failed |-> FALSE]} :
          \E after \in
                {CASE call = "track" -> handle_prns_tracked(w, satellite_id)
                   [] call = "decode" ->
                        handle_subframes(
                            handle_prns_tracked(w, satellite_id), satellite_id,
                            <<[subframe_id |-> 1, sv_health |-> sv_health],
                              [subframe_id |-> 2, sv_health |-> 0],
                              [subframe_id |-> 3, sv_health |-> 0]>>)
                   [] OTHER -> drop_satellite(w, satellite_id)} :
              /\ ~after.invariant_failed
              /\ pending' = after.pending
              /\ params' = after.params
              /\ pc' = IF last THEN "solve" ELSE "pipelines"
    /\ UNCHANGED <<acqVars, pipeVars, err, pipelines, todo, fed, raised,
                   raised_by, dropped, ever_dropped, solver_ids, solved, solutions,
                   ms_since_http, compVars>>

(***************************************************************************)
(* Two PseudobitIntegrators side by side: the one of the Pipeline, and a   *)
(* fresh one that receives each pseudobit negated.  Their SubframeDecoders *)
(* raise for the same candidates.                                          *)
(***************************************************************************)
HandlePseudobitAndInverse ==
    /\ raised = "none"
    /\ inv_exception = "none"
    /\ bit_since < MaxBitsAfter
    /\ \E pseudobit \in Pseudobits,
          bad \in 0..(PREAMBLES_REQUIRED_TO_DETERMINE_BIT_PHASE + 1) :
          \E r \in {handle_pseudobit(pseudobits, bit_phase, pseudobit, bad)},
             t \in {handle_pseudobit(inv_pseudobits, inv_bit_phase,
                                      -pseudobit, bad)} :
              /\ pseudobits' = r.pseudobits
              /\ bit_phase' = r.bit_phase
              /\ bit_determinations' =
                    bit_determinations + (IF r.called THEN 1 ELSE 0)
              /\ bit_determined_from' =
                    IF r.called THEN r.from ELSE bit_determined_from
              /\ bit_offset' = IF r.called THEN r.offset ELSE bit_offset
              /\ bit_drained' = r.drained
              /\ bit_candidates' = bit_candidates + r.candidates
              /\ bit_since' = IF bit_phase # 0 THEN bit_since + 1 ELSE 0
              /\ raised' = r.exception
              /\ inv_pseudobits' = t.pseudobits
              /\ inv_bit_phase' = t.bit_phase
              /\ inv_offset' = IF t.called THEN t.offset ELSE inv_offset
              /\ inv_drained' = t.drained
              /\ inv_exception' = t.exception
    /\ UNCHANGED <<acqVars, pipeVars, worldVars, pc, err, pipelines, todo, fed,
                   raised_by, dropped, ever_dropped, solver_ids, solved, solutions,
                   ms_since_http, trackerVars, fullWorldVars, symVars,
                   decode_call, fn_call>>

(***************************************************************************)
(* _decode_subframe_data and _verify_parity (subframe_decoder.py).  A word *)
(* has 30 bits, 24 of data and 6 of parity; a subframe of the model has    *)
(* WordsPerSubframe words in place of 10.  The subframes decoded are the   *)
(* encodings, by the rule the decoder undoes (section 20.3.5 of            *)
(* IS-GPS-200), of data words drawn from DataWords, with at most one bit   *)
(* flipped.                                                                *)
(***************************************************************************)
\* Words per subframe in the model.
WordsPerSubframe == 2
\* The data words are DataWord(0) .. DataWord(WordSeeds).
WordSeeds == 4

_BITS_PER_WORD == 30
_DATA_BITS_PER_WORD == 24

\* The six calls of _verify_parity for a word: the bit of the previous word
\* and the 1-based indices of the data bits that enter each parity bit.
ParityEquations ==
    << [previous |-> 29,
        indices |-> {1, 2, 3, 5, 6, 10, 11, 12, 13, 14, 17, 18, 20, 23}],
       [previous |-> 30,
        indices |-> {2, 3, 4, 6, 7, 11, 12, 13, 14, 15, 18, 19, 21, 24}],
       [previous |-> 29,
        indices |-> {1, 3, 4, 5, 7, 8, 12, 13, 14, 15, 16, 19, 20, 22}],
       [previous |-> 30,
        indices |-> {2, 4, 5, 6, 8, 9, 13, 14, 15, 16, 17, 20, 21, 23}],
       [previous |-> 30,
        indices |-> {1, 3, 5, 6, 7, 9, 10, 14, 15, 16, 17, 18, 21, 22, 24}],
       [previous |-> 29,
        indices |-> {3, 5, 6, 8, 9, 10, 11, 13, 15, 19, 22, 23, 24}] >>

\* (previous_word_parity + sum(word_data[i - 1] for i in indices)) % 2
ComputedParity(previous_word_parity, word_data, word_data_indices) ==
    (previous_word_parity
        + Cardinality({i \in word_data_indices : word_data[i] = 1})) % 2

\* A check that leaves the previous word out.
_verify_parity_without_previous_word(transmitted_parity, previous_word_parity, word_data, word_data_indices) ==
    ComputedParity(0, word_data, word_data_indices) = transmitted_parity

\* _verify_parity: TRUE if it returns, FALSE if it raises ParityError.
_verify_parity(transmitted_parity, previous_word_parity, word_data, word_data_indices) ==
    ComputedParity(previous_word_parity, word_data, word_data_indices)
        = transmitted_parity

\* The loop of _decode_subframe_data from word number k on.
RECURSIVE _decode_words(_, _, _, _, _)
_decode_words(subframe_transmitted, k, last_word_bit_29, last_word_bit_30, subframe_data) ==
    IF k > WordsPerSubframe
    THEN [data |-> subframe_data, exception |-> "none"]
    ELSE LET word_transmitted ==
                 SubSeq(subframe_transmitted, (k - 1) * _BITS_PER_WORD + 1,
                        k * _BITS_PER_WORD)
             word_data ==
                 [j \in 1.._DATA_BITS_PER_WORD |->
                     (word_transmitted[j] + last_word_bit_30) % 2]
             previous(e) == IF e.previous = 29 THEN last_word_bit_29
                            ELSE last_word_bit_30
         IN  IF \E p \in 1..Len(ParityEquations) :
                   ~_verify_parity(word_transmitted[_DATA_BITS_PER_WORD + p],
                                   previous(ParityEquations[p]), word_data,
                                   ParityEquations[p].indices)
             THEN [data |-> <<>>, exception |-> "ParityError"]
             ELSE _decode_words(subframe_transmitted, k + 1,
                                word_transmitted[29], word_transmitted[30],
                                subframe_data \o word_data)

\* _decode_subframe_data
_decode_subframe_data(subframe_transmitted) ==
    IF Len(subframe_transmitted) # WordsPerSubframe * _BITS_PER_WORD
    THEN [data |-> <<>>, exception |-> "InvariantError"]
    ELSE _decode_words(subframe_transmitted, 1, 0, 0, <<>>)

\* The transmitted bits of the data words from number k on: each data bit
\* XORed with bit 30 of the previous word, then the six parity bits.
RECURSIVE EncodeWords(_, _, _, _)
EncodeWords(words, k, last_word_bit_29, last_word_bit_30) ==
    IF k > Len(words) THEN <<>>
    ELSE LET word_data == words[k]
             parity ==
                 [p \in 1..Len(ParityEquations) |->
                     ComputedParity(
                         IF ParityEquations[p].previous = 29
                         THEN last_word_bit_29 ELSE last_word_bit_30,
                         word_data, ParityEquations[p].indices)]
             word_transmitted ==
                 [j \in 1.._DATA_BITS_PER_WORD |->
                     (word_data[j] + last_word_bit_30) % 2] \o parity
         IN  word_transmitted
                 \o EncodeWords(words, k + 1, word_transmitted[29],
                                word_transmitted[30])

\* The 24 data bits of word number n of the inputs.
DataWord(n) ==
    LET v == (n * 7654321) % 16777216
        RECURSIVE Power2(_)
        Power2(e) == IF e = 0 THEN 1 ELSE 2 * Power2(e - 1)
    IN  [j \in 1.._DATA_BITS_PER_WORD |->
            (v \div Power2(_DATA_BITS_PER_WORD - j)) % 2]

\* The calls of _decode_subframe_data that are followed: a subframe encoded
\* from data words, not yet decoded.
DecodeInputs ==
    { <<[data |-> [k \in 1..WordsPerSubframe |-> DataWord(seeds[k])],
         transmitted |->
             EncodeWords([k \in 1..WordsPerSubframe |-> DataWord(seeds[k])],
                         1, 0, 0),
         flipped |-> 0,
         result |-> <<>>]>> :
      seeds \in [1..WordsPerSubframe -> 0..WordSeeds] }

\* One transmitted bit is received inverted.
FlipTransmittedBit ==
    /\ decode_call # <<>>
    /\ decode_call[1].flipped = 0
    /\ decode_call[1].result = <<>>
    /\ \E position \in 1..Len(decode_call[1].transmitted) :
          decode_call' =
              <<[decode_call[1] EXCEPT
                   !.flipped = position,
                   !.transmitted[position] = 1 - @]>>
    /\ UNCHANGED <<acqVars, pipeVars, worldVars, recvVars, trackerVars,
                   fullWorldVars, bitVars, symVars, inv_pseudobits,
                   inv_bit_phase, inv_offset, inv_drained, inv_exception,
                   fn_call>>

\* _decode_subframe_data is called with the transmitted bits.
DecodeSubframeData ==
    /\ decode_call # <<>>
    /\ decode_call[1].result = <<>>
    /\ decode_call' =
          <<[decode_call[1] EXCEPT
               !.result =
                   <<_decode_subframe_data(decode_call[1].transmitted)>>]>>
    /\ UNCHANGED <<acqVars, pipeVars, worldVars, recvVars, trackerVars,
                   fullWorldVars, bitVars, symVars, inv_pseudobits,
                   inv_bit_phase, inv_offset, inv_drained, inv_exception,
                   fn_call>>

(***************************************************************************)
(* The bounded histories: the four deques of a Tracker (tracker.py 33-61), *)
(* Receiver._solutions (receiver.py 50) and Acquirer._samples              *)
(* (acquirer.py 77-79), each a deque with a maxlen.  One step is one       *)
(* handle_1ms_of_samples call of the owner; the value appended in a step   *)
(* is represented by the number of the step, the value a Tracker's deque   *)
(* is constructed with (the acquisition's estimate) by 0.                  *)
(***************************************************************************)
TRACKING_HISTORY_SIZE == 1000

\* Steps followed after a history has become full.
MaxAppendsBeyond == 2

\* A list that is never truncated.
deque_append_unbounded(d, x, maxlen) == Append(d, x)

\* deque.append on a deque constructed with maxlen: when the deque is full
\* the item at the left end is discarded.
deque_append(d, x, maxlen) ==
    IF Len(d) >= maxlen THEN Append(Tail(d), x) ELSE Append(d, x)

\* The deques as constructed, with their maxlen; log is the history of
\* everything that was ever put into each deque.
HistoryInputs ==
    { <<[f |-> "history", owner |-> "Tracker", step |-> 0,
         maxlen |-> TRACKING_HISTORY_SIZE,
         deques |-> [_carrier_frequency_shifts |-> <<0>>,
                     _carrier_phase_shifts |-> <<0>>,
                     _correlations |-> <<>>,
                     _prn_code_phase_shifts |-> <<0>>],
         log |-> [_carrier_frequency_shifts |-> <<0>>,
                  _carrier_phase_shifts |-> <<0>>,
                  _correlations |-> <<>>,
                  _prn_code_phase_shifts |-> <<0>>]]>>,
      <<[f |-> "history", owner |-> "Receiver", step |-> 0,
         maxlen |-> SOLUTION_HISTORY_SIZE,
         deques |-> [_solutions |-> <<>>], log |-> [_solutions |-> <<>>]]>>,
      <<[f |-> "history", owner |-> "Acquirer", step |-> 0,
         maxlen |-> MS_OF_SAMPLES_REQUIRED_TO_PERFORM_ACQUISITION,
         deques |-> [_samples |-> <<>>], log |-> [_samples |-> <<>>]]>> }

\* One handle_1ms_of_samples call of the owner: a Tracker appends to each of
\* its four deques (tracker.py 167, 259, 339, 361), the Acquirer appends the
\* block (acquirer.py 92), the Receiver appends the fix if the solver
\* returned one (receiver.py 90-96).
HistoryStep ==
    /\ fn_call # <<>>
    /\ fn_call[1].f = "history"
    /\ fn_call[1].step < fn_call[1].maxlen + MaxAppendsBeyond
    /\ \E appends \in IF fn_call[1].owner = "Receiver" THEN BOOLEAN ELSE {TRUE} :
          fn_call' =
              <<[fn_call[1] EXCEPT
                   !.step = @ + 1,
                   !.deques =
                       [name \in DOMAIN @ |->
                           IF appends
                           THEN deque_append(@[name], fn_call[1].step + 1,
                                             fn_call[1].maxlen)
                           ELSE @[name]],
                   !.log =
                       [name \in DOMAIN @ |->
                           IF appends
                           THEN Append(@[name], fn_call[1].step + 1)
                           ELSE @[name]]]>>
    /\ UNCHANGED <<acqVars, pipeVars, worldVars, recvVars, trackerVars,
                   fullWorldVars, bitVars, symVars, inv_pseudobits,
                   inv_bit_phase, inv_offset, inv_drained, inv_exception,
                   decode_call>>

(***************************************************************************)
(* The C/A codes (prn_codes.py): two 10-stage linear-feedback shift        *)
(* registers seeded with ones; each chip is the exclusive or of their      *)
(* outputs.  A register is the sequence of its bits, index 1 the leftmost. *)
(***************************************************************************)
LfsrStages == 10
\* Chips of a C/A code.
PrnCodeChips == 1023
\* Satellites whose code is generated.
PrnSatellites == 1

\* The output indices of each satellite's code, by satellite id.
_prn_code_outputs ==
    <<{2, 6}, {3, 7}, {4, 8}, {5, 9}, {1, 9}, {2, 10}, {1, 8}, {2, 9},
      {3, 10}, {2, 3}, {3, 4}, {5, 6}, {6, 7}, {7, 8}, {8, 9}, {9, 10},
      {1, 4}, {2, 5}, {3, 6}, {4, 7}, {5, 8}, {6, 9}, {1, 3}, {4, 6},
      {5, 7}, {6, 8}, {7, 9}, {8, 10}, {1, 6}, {2, 7}, {3, 8}, {4, 9}>>

\* The output of a register: the sum modulo 2 of the bits at indices.
_lfsr_output(bits, indices) ==
    Cardinality({i \in indices : bits[i] = 1}) % 2

\* A register that rotates: its rightmost bit re-enters at the left.
_lfsr_rotate(bits, taps) ==
    [i \in 1..LfsrStages |-> IF i = 1 THEN bits[LfsrStages] ELSE bits[i - 1]]

\* The register after one iteration of _lfsr: the bits move one place to
\* the right and the feedback of the taps enters at the left.
_lfsr_shift(bits, taps) ==
    [i \in 1..LfsrStages |->
        IF i = 1 THEN _lfsr_output(bits, taps) ELSE bits[i - 1]]

\* One iteration of the loop that fills prn_code: next(g1) ^ next(g2).
GeneratePrnChip ==
    /\ fn_call # <<>>
    /\ fn_call[1].f = "prn"
    /\ Len(fn_call[1].prn_code) < PrnCodeChips
    /\ fn_call' =
          <<[fn_call[1] EXCEPT
               !.prn_code =
                   Append(@,
                          (_lfsr_output(fn_call[1].g1, {10})
                           + _lfsr_output(
                                 fn_call[1].g2,
                                 _prn_code_outputs[fn_call[1].satellite_id]))
                          % 2),
               !.g1 = _lfsr_shift(@, {3, 10}),
               !.g2 = _lfsr_shift(@, {2, 3, 6, 8, 9, 10})]>>
    /\ UNCHANGED <<acqVars, pipeVars, worldVars, recvVars, trackerVars,
                   fullWorldVars, bitVars, symVars, inv_pseudobits,
                   inv_bit_phase, inv_offset, inv_drained, inv_exception,
                   decode_call>>

(***************************************************************************)
(* World._wrap_time_delta (world.py 366-380).  Times are whole seconds,    *)
(* for which the floating-point additions and subtractions are exact.      *)
(***************************************************************************)
_SECONDS_PER_WEEK == 604800

\* How far from zero and from half a week the time differences are taken.
MaxTimeDeltaOffset == 8

\* The time differences wrapped: around zero, around half a week on either
\* side, inside and outside the window.
TimeDeltas ==
    UNION {{k, -k,
            (_SECONDS_PER_WEEK \div 2) - k, (_SECONDS_PER_WEEK \div 2) + k,
            k - (_SECONDS_PER_WEEK \div 2), -k - (_SECONDS_PER_WEEK \div 2)} :
              k \in 0..MaxTimeDeltaOffset}

\* A wrap whose window is closed on the left and open on the right.
_wrap_time_delta_from_half_a_week(t) ==
    IF 2 * t >= _SECONDS_PER_WEEK THEN t - _SECONDS_PER_WEEK
    ELSE IF 2 * t < -_SECONDS_PER_WEEK THEN t + _SECONDS_PER_WEEK
    ELSE t

\* World._wrap_time_delta; t > _SECONDS_PER_WEEK / 2 is 2 * t > _SECONDS_PER_WEEK.
_wrap_time_delta(t) ==
    IF 2 * t > _SECONDS_PER_WEEK THEN t - _SECONDS_PER_WEEK
    ELSE IF 2 * t < -_SECONDS_PER_WEEK THEN t + _SECONDS_PER_WEEK
    ELSE t

\* _wrap_time_delta is called with t and with t + _SECONDS_PER_WEEK.
WrapTimeDelta ==
    /\ fn_call # <<>>
    /\ fn_call[1].f = "wrap"
    /\ fn_call[1].result = <<>>
    /\ fn_call' =
          <<[fn_call[1] EXCEPT
               !.result =
                   <<[of_t |-> _wrap_time_delta(fn_call[1].t),
                      of_t_plus_week |->
                          _wrap_time_delta(fn_call[1].t + _SECONDS_PER_WEEK)]>>]>>
    /\ UNCHANGED <<acqVars, pipeVars, worldVars, recvVars, trackerVars,
                   fullWorldVars, bitVars, symVars, inv_pseudobits,
                   inv_bit_phase, inv_offset, inv_drained, inv_exception,
                   decode_call>>

(***************************************************************************)
(* _acquire_satellite (acquirer.py 234-281): the search over ever smaller  *)
(* ranges of frequency shifts.  What _acquire_satellite_at_frequency_shifts *)
(* returns in an iteration is an input: a frequency shift of the range     *)
(* searched and a strength, which is peak / mean and is not a number when  *)
(* all correlations of the row are equal (a block of zeros).               *)
(***************************************************************************)
InitialHalfFrequencyShiftRange == 7680
SmallestHalfFrequencyShiftRange == 15
\* Stands for the strength that is not a number: it compares as neither
\* greater than, equal to nor less than any strength.
NaN == -1
\* The greatest strength an iteration reports in the model.
MaxSearchStrength == 3

\* A search that retains the newest result.
RetainedAcquisitionNewest(best_acquisition, new_acquisition) ==
    <<new_acquisition>>

\* Lines 269-273: the result retained after an iteration.
RetainedAcquisition(best_acquisition, new_acquisition) ==
    IF \/ best_acquisition = <<>>
       \/ /\ new_acquisition.strength # NaN
          /\ best_acquisition[1].strength # NaN
          /\ new_acquisition.strength > best_acquisition[1].strength
    THEN <<new_acquisition>>
    ELSE best_acquisition

\* One iteration of the while loop of _acquire_satellite.
AcquireSatelliteIteration ==
    /\ fn_call # <<>>
    /\ fn_call[1].f = "search"
    /\ fn_call[1].half_frequency_shift_range >= SmallestHalfFrequencyShiftRange
    /\ \E strength \in {NaN} \cup 1..MaxSearchStrength,
          carrier_frequency_shift \in
              {fn_call[1].centre_frequency_shift
                   - fn_call[1].half_frequency_shift_range,
               fn_call[1].centre_frequency_shift
                   + fn_call[1].half_frequency_shift_range} :
          \E retained \in
                {RetainedAcquisition(
                     fn_call[1].best_acquisition,
                     [strength |-> strength,
                      carrier_frequency_shift |-> carrier_frequency_shift])} :
              fn_call' =
                  <<[fn_call[1] EXCEPT
                       !.previous = fn_call[1].best_acquisition,
                       !.new_acquisition =
                           <<[strength |-> strength,
                              carrier_frequency_shift |->
                                  carrier_frequency_shift]>>,
                       !.best_acquisition = retained,
                       !.centre_frequency_shift =
                           retained[1].carrier_frequency_shift,
                       !.half_frequency_shift_range = @ \div 2]>>
    /\ UNCHANGED <<acqVars, pipeVars, worldVars, recvVars, trackerVars,
                   fullWorldVars, bitVars, symVars, inv_pseudobits,
                   inv_bit_phase, inv_offset, inv_drained, inv_exception,
                   decode_call>>

(***************************************************************************)
(* Tracker.handle_1ms_of_samples (tracker.py 126-172) as the World sees    *)
(* it: the report of the edges and the side, then the pseudosymbol, which  *)
(* the integrators and the SubframeDecoder handle before the call returns  *)
(* (subframe_decoder.py 46-52), so that a subframe completed by it reaches *)
(* World.handle_subframe inside the step.  Once a subframe has been        *)
(* decoded the next one is completed PRN_CODES_PER_SUBFRAME blocks later.  *)
(***************************************************************************)
\* A step that forwards the pseudosymbol before it reports to the World.
Tracker_handle_1ms_of_samples_forwarding_first(fw, count, side_arg, subframes) ==
    World_handle_prns_tracked(
        IF subframes = <<>> THEN fw
        ELSE World_handle_subframe(fw, subframes[1]),
        count, side_arg)

\* Lines 145-172: the World after the step, subframes holding the subframe
\* decoded in the step if there is one.
Tracker_handle_1ms_of_samples(fw, count, side_arg, subframes) ==
    LET reported == World_handle_prns_tracked(fw, count, side_arg)
    IN  IF subframes = <<>> THEN reported
        ELSE World_handle_subframe(reported, subframes[1])

\* One block handled by the Tracker of a satellite.
TrackerWorldStep ==
    /\ fn_call # <<>>
    /\ fn_call[1].f = "tracker"
    /\ ~fn_call[1].world.invariant_failed
    /\ fn_call[1].since < PRN_CODES_PER_SUBFRAME
    /\ \E ws \in WrapSides, subframe_id \in SubframeIds, decoded \in BOOLEAN :
          /\ ws # "None" => fn_call[1].wraps < MaxWraps
          /\ decoded =>
                /\ fn_call[1].received < MaxWorldSubframes
                /\ \/ fn_call[1].received = 0
                   \/ fn_call[1].since + 1 = PRN_CODES_PER_SUBFRAME
          /\ (/\ fn_call[1].received \in 1..(MaxWorldSubframes - 1)
              /\ fn_call[1].since + 1 = PRN_CODES_PER_SUBFRAME) => decoded
          /\ ~decoded => subframe_id = 1
          /\ \E subframes \in
                {IF decoded
                 THEN <<Subframe(subframe_id, fn_call[1].received + 1)>>
                 ELSE <<>>} :
                fn_call' =
                    <<[fn_call[1] EXCEPT
                         !.before = fn_call[1].world,
                         !.world =
                             Tracker_handle_1ms_of_samples(
                                 fn_call[1].world, PrnCountOf(ws),
                                 SideAfter(fn_call[1].side, ws), subframes),
                         !.side = SideAfter(@, ws),
                         !.count = PrnCountOf(ws),
                         !.subframes = subframes,
                         !.stepped = TRUE,
                         !.wraps = IF ws # "None" THEN @ + 1 ELSE @,
                         !.received = IF decoded THEN @ + 1 ELSE @,
                         !.since = IF decoded THEN 0 ELSE @ + 1]>>
    /\ UNCHANGED <<acqVars, pipeVars, worldVars, recvVars, trackerVars,
                   fullWorldVars, bitVars, symVars, inv_pseudobits,
                   inv_bit_phase, inv_offset, inv_drained, inv_exception,
                   decode_call>>

(***************************************************************************)
(* A promoted satellite through Receiver steps (receiver.py 76-90): its    *)
(* Pipeline reports to the World and hands it the subframe decoded in the  *)
(* step, if there is one, and then compute_solution chooses its            *)
(* satellites (world.py 246-258).  The satellite was promoted with the     *)
(* sv_health of the subframe 1 it had received while pending.              *)
(***************************************************************************)
\* Receiver steps followed for the promoted satellite.
MaxHealthSteps == 3

\* One Receiver step of the promoted satellite 1.
PromotedSatelliteStep ==
    /\ fn_call # <<>>
    /\ fn_call[1].f = "health"
    /\ Len(fn_call[1].log) < MaxHealthSteps
    /\ \E subframes \in SeqsUpTo(Subframes, 1) :
          \E after \in
                {WorldAfterPipeline(fn_call[1].world, 1,
                                    [subframes |-> subframes])} :
              fn_call' =
                  <<[fn_call[1] EXCEPT
                       !.world = after,
                       !.log = Append(@,
                           [subframes |-> subframes,
                            before |-> fn_call[1].world,
                            satellite_ids |->
                                compute_solution_satellite_ids(
                                    after.params)])]>>
    /\ UNCHANGED <<acqVars, pipeVars, worldVars, recvVars, trackerVars,
                   fullWorldVars, bitVars, symVars, inv_pseudobits,
                   inv_bit_phase, inv_offset, inv_drained, inv_exception,
                   decode_call>>

(***************************************************************************)
(* _SubframeDecoder (subframe_decoder.py 55-253): the cursor over the      *)
(* decoded data bits of a subframe of the program's size.  Every read goes *)
(* through _get_bits; the fields are given by their widths in the order in *)
(* which decode reads them.  The values of the bits matter only where the  *)
(* code checks them, the preamble and the subframe id, which is an input.  *)
(***************************************************************************)
\* BITS_PER_SUBFRAME of the program.
TransmittedBitsPerSubframe == 300

\* len(self._data): _decode_subframe_data keeps _DATA_BITS_PER_WORD bits of
\* each word (lines 314-318).
DataBitsPerSubframe ==
    (TransmittedBitsPerSubframe \div _BITS_PER_WORD) * _DATA_BITS_PER_WORD

\* _decode_telemetry (lines 90-106) and _decode_handover (lines 108-124).
FieldsOfTelemetryAndHandover == <<8, 14, 1, 1, 17, 1, 1, 3, 2>>

\* A subframe 1 with one reserved bit more.
FieldsWithLongerReserved(subframe_id) ==
    IF subframe_id = 1
    THEN <<10, 2, 4, 6, 2, 1, 88, 8, 8, 16, 8, 16, 22, 2>>
    ELSE <<>>

\* _decode_subframe_1 to _decode_subframe_5 (lines 126-239).
FieldsOfSubframe(subframe_id) ==
    CASE subframe_id = 1 ->
             <<10, 2, 4, 6, 2, 1, 87, 8, 8, 16, 8, 16, 22, 2>>
      [] subframe_id = 2 -> <<8, 16, 16, 32, 16, 32, 16, 32, 16, 1, 5, 2>>
      [] subframe_id = 3 -> <<16, 32, 16, 32, 16, 32, 24, 8, 14, 2>>
      [] OTHER -> <<>>

\* _get_bits (lines 245-253): the cursor after the read, or the failure of
\* its invariant.
_get_bits(cursor, bit_count) ==
    IF cursor + bit_count <= DataBitsPerSubframe
    THEN [cursor |-> cursor + bit_count, failed |-> FALSE]
    ELSE [cursor |-> cursor, failed |-> TRUE]

\* The next read of decode.
DecodeNextField ==
    /\ fn_call # <<>>
    /\ fn_call[1].f = "fields"
    /\ ~fn_call[1].failed
    /\ fn_call[1].fields # <<>>
    /\ \E read \in {_get_bits(fn_call[1].cursor, Head(fn_call[1].fields))} :
          fn_call' =
              <<[fn_call[1] EXCEPT
                   !.cursor = read.cursor,
                   !.failed = read.failed,
                   !.fields = IF read.failed THEN @ ELSE Tail(@),
                   !.reads = @ + 1]>>
    /\ UNCHANGED <<acqVars, pipeVars, worldVars, recvVars, trackerVars,
                   fullWorldVars, bitVars, symVars, inv_pseudobits,
                   inv_bit_phase, inv_offset, inv_drained, inv_exception,
                   decode_call>>

\* No function is being followed on its own: the second
\* PseudobitIntegrator is as constructed.
FnIdle ==
    /\ inv_pseudobits = <<>>
    /\ inv_bit_phase = 0
    /\ inv_offset = <<>>
    /\ inv_drained = <<>>
    /\ inv_exception = "none"
    /\ decode_call = <<>>
    /\ fn_call = <<>>

\* No component is being modelled on its own.
ComponentsIdle ==
    /\ TrackerIdle
    /\ FullWorldIdle
    /\ BitIdle
    /\ SymIdle
    /\ FnIdle

(***************************************************************************)
(* The receiver as constructed, with either acquirer.                      *)
(***************************************************************************)
ReceiverInit ==
    /\ pc = "acquire"
    /\ err = "none"
    /\ now = 0
    /\ samples = 0
    /\ next_acquisition_at = [si \in ALL_SATELLITE_IDS |-> MinTimestamp]
    /\ tracked_satellite_ids = {}
    /\ waiting = FALSE
    /\ toWorker = <<>>
    /\ workerJob = <<>>
    /\ toMain = <<>>
    /\ inflight = NoSat
    /\ target = NoSat
    /\ result = <<>>
    /\ acquisition = <<>>
    /\ last_result_at = [si \in ALL_SATELLITE_IDS |-> MinTimestamp]
    /\ prev_result_at = MinTimestamp
    /\ pipelines = <<>>
    /\ todo = <<>>
    /\ fed = {}
    /\ raised = "none"
    /\ raised_by = NoSat
    /\ dropped = {}
    /\ ever_dropped = {}
    /\ pending = EmptyMap
    /\ params = EmptyMap
    /\ solver_ids = {}
    /\ solved = FALSE
    /\ solutions = 0
    /\ ms_since_http = 0

Init ==
    /\ mode \in {"main", "subprocess"}
    /\ ReceiverInit
    /\ ComponentsIdle

\* The main process: a finite stream of blocks (a file).
MainNext ==
    \/ AcquireTooFewSamples(FALSE)
    \/ AcquireInMainProcess(FALSE)
    \/ AcquireInSubprocess(FALSE)
    \/ NoPipelines
    \/ FeedPipeline
    \/ Solve
    \/ SendHttpData

WorkerNext == WorkerReceive \/ WorkerSend

Next == MainNext \/ WorkerNext

Spec == Init /\ [][Next]_vars

(***************************************************************************)
(* The receiver on an endless stream (the SDR) with the background         *)
(* acquirer, on signals from which no subframe is decoded.  Both processes *)
(* keep running: the main loop handles every block that arrives and the    *)
(* worker loops forever.                                                   *)
(***************************************************************************)
LiveInit ==
    /\ mode = "subprocess"
    /\ ReceiverInit
    /\ ComponentsIdle

LiveMainNext ==
    \/ AcquireTooFewSamples(TRUE)
    \/ AcquireInSubprocess(TRUE)
    \/ NoPipelines
    \/ FeedPipelineQuiet
    \/ Solve
    \/ SendHttpData

LiveNext == LiveMainNext \/ WorkerNext

LiveSpec ==
    /\ LiveInit
    /\ [][LiveNext]_vars
    /\ WF_vars(LiveMainNext)
    /\ WF_vars(WorkerReceive)
    /\ WF_vars(WorkerSend)

(***************************************************************************)
(* A Tracker on its own, constructed from an Acquisition whose             *)
(* prn_code_phase_shift is in [0, 2045].                                   *)
(***************************************************************************)
TrackerInit ==
    /\ mode = "main"
    /\ ReceiverInit
    /\ prn_code_phase_shift \in 0..(PRN_CODE_LENGTH - 1)
    /\ side = InitialSide(prn_code_phase_shift)
    /\ wrap_side = "None"
    /\ prn_count = 0
    /\ tracker_steps = 0
    /\ unwrapped = 0
    /\ prns_reported = 0
    /\ FullWorldIdle
    /\ BitIdle
    /\ SymIdle
    /\ FnIdle

TrackerNext == TrackerStep

TrackerSpec == TrackerInit /\ [][TrackerNext]_vars

(***************************************************************************)
(* The World and one satellite's Tracker, from the installation of the     *)
(* Pipeline, with either side dominant at first.                           *)
(***************************************************************************)
WorldInit ==
    /\ mode = "main"
    /\ ReceiverInit
    /\ prn_code_phase_shift = 0
    /\ side \in {"LEFT", "RIGHT"}
    /\ wrap_side = "None"
    /\ prn_count = 0
    /\ tracker_steps = 0
    /\ unwrapped = 0
    /\ prns_reported = 0
    /\ FullWorldIdle
    /\ BitIdle
    /\ SymIdle
    /\ FnIdle

WorldNext == WorldPrnsTracked \/ WorldSubframe

WorldSpec == WorldInit /\ [][WorldNext]_vars

(***************************************************************************)
(* The PseudobitIntegrator of one installed Pipeline, fed one pseudobit    *)
(* after the other, and the Receiver's handling of what it raises.  The    *)
(* Tracker has reported to the World, so the satellite has pending         *)
(* parameters.                                                             *)
(***************************************************************************)
BitInit ==
    /\ mode = "main"
    /\ pc = "pipelines"
    /\ err = "none"
    /\ now = 1
    /\ samples = 1
    /\ next_acquisition_at = [si \in ALL_SATELLITE_IDS |-> MinTimestamp]
    /\ \E satellite_id \in ALL_SATELLITE_IDS :
          /\ \A other \in ALL_SATELLITE_IDS : satellite_id <= other
          /\ tracked_satellite_ids = {satellite_id}
          /\ pipelines = <<NewPipeline(satellite_id)>>
          /\ todo = <<satellite_id>>
          /\ pending = MapPut(EmptyMap, satellite_id,
                              NewPendingSatelliteParameters)
    /\ waiting = FALSE
    /\ toWorker = <<>>
    /\ workerJob = <<>>
    /\ toMain = <<>>
    /\ inflight = NoSat
    /\ target = NoSat
    /\ result = <<>>
    /\ acquisition = <<>>
    /\ last_result_at = [si \in ALL_SATELLITE_IDS |-> MinTimestamp]
    /\ prev_result_at = MinTimestamp
    /\ fed = {}
    /\ raised = "none"
    /\ raised_by = NoSat
    /\ dropped = {}
    /\ ever_dropped = {}
    /\ params = EmptyMap
    /\ solver_ids = {}
    /\ solved = FALSE
    /\ solutions = 0
    /\ ms_since_http = 0
    /\ TrackerIdle
    /\ FullWorldIdle
    /\ BitIdle
    /\ SymIdle
    /\ FnIdle

BitNext == HandlePseudobit

BitSpec == BitInit /\ [][BitNext]_vars

(***************************************************************************)
(* The PseudosymbolIntegrator of one installed Pipeline, fed one           *)
(* pseudosymbol after the other.                                           *)
(***************************************************************************)
SymInit == BitInit

SymNext == HandlePseudosymbol

SymSpec == SymInit /\ [][SymNext]_vars

(***************************************************************************)
(* A stream of pseudobits and its inversion, each fed to a fresh           *)
(* PseudobitIntegrator.                                                    *)
(***************************************************************************)
InversionSpec == BitInit /\ [][HandlePseudobitAndInverse]_vars

(***************************************************************************)
(* The solver in a Receiver whose Acquirer finds nothing.                  *)
(***************************************************************************)
SolverSpec ==
    Init /\ [][SolverAcquirerIdle \/ SolverWorldCall \/ Solve \/ SendHttpData]_vars

(***************************************************************************)
(* Single functions, each called on inputs drawn from a bounded set.       *)
(***************************************************************************)
FunctionInit ==
    /\ mode = "main"
    /\ ReceiverInit
    /\ TrackerIdle
    /\ FullWorldIdle
    /\ BitIdle
    /\ SymIdle
    /\ inv_pseudobits = <<>>
    /\ inv_bit_phase = 0
    /\ inv_offset = <<>>
    /\ inv_drained = <<>>
    /\ inv_exception = "none"
    /\ \E f \in {"decode", "history", "prn", "wrap", "search", "tracker",
                "health", "fields"} :
          /\ decode_call \in IF f = "decode" THEN DecodeInputs ELSE {<<>>}
          /\ fn_call \in CASE f = "history" -> HistoryInputs
                           [] f = "prn" ->
                                {<<[f |-> "prn", satellite_id |-> satellite_id,
                                    g1 |-> [i \in 1..LfsrStages |-> 1],
                                    g2 |-> [i \in 1..LfsrStages |-> 1],
                                    prn_code |-> <<>>]>> :
                                   satellite_id \in 1..PrnSatellites}
                           [] f = "wrap" ->
                                {<<[f |-> "wrap", t |-> t, result |-> <<>>]>> :
                                   t \in TimeDeltas}
                           [] f = "search" ->
                                {<<[f |-> "search", best_acquisition |-> <<>>,
                                    previous |-> <<>>, new_acquisition |-> <<>>,
                                    centre_frequency_shift |-> 0,
                                    half_frequency_shift_range |->
                                        InitialHalfFrequencyShiftRange]>>}
                           [] f = "tracker" ->
                                {<<[f |-> "tracker",
                                    world |->
                                        [pending |-> <<>>, params |-> <<>>,
                                         invariant_failed |-> FALSE],
                                    before |->
                                        [pending |-> <<>>, params |-> <<>>,
                                         invariant_failed |-> FALSE],
                                    side |-> initial_side, count |-> 0,
                                    subframes |-> <<>>, stepped |-> FALSE,
                                    wraps |-> 0, received |-> 0,
                                    since |-> 0]>> :
                                   initial_side \in {"LEFT", "RIGHT"}}
                           [] f = "health" ->
                                {<<[f |-> "health",
                                    world |->
                                        [pending |-> EmptyMap,
                                         params |->
                                             MapPut(EmptyMap, 1,
                                                 to_satellite_parameters(
                                                     [subframe_1 |->
                                                          sv_health])),
                                         invariant_failed |-> FALSE],
                                    log |-> <<>>]>> :
                                   sv_health \in {0, 1}}
                           [] f = "fields" ->
                                {<<[f |-> "fields",
                                    subframe_id |-> subframe_id,
                                    cursor |-> 0, failed |-> FALSE,
                                    fields |->
                                        FieldsOfTelemetryAndHandover
                                            \o FieldsOfSubframe(subframe_id),
                                    reads |-> 0]>> :
                                   subframe_id \in SubframeIds}
                           [] OTHER -> {<<>>}

FunctionNext ==
    \/ FlipTransmittedBit
    \/ DecodeSubframeData
    \/ HistoryStep
    \/ GeneratePrnChip
    \/ WrapTimeDelta
    \/ AcquireSatelliteIteration
    \/ TrackerWorldStep
    \/ PromotedSatelliteStep
    \/ DecodeNextField

FunctionSpec == FunctionInit /\ [][FunctionNext]_vars

(***************************************************************************)
(* Properties of the Receiver and its Acquirer (Spec).                     *)
(***************************************************************************)
\* C1: each satellite id has at most one Pipeline: the Acquirer, in-process
\* or background, never hands the Receiver an Acquisition for a satellite
\* that is tracked, so the Receiver's 'already tracked satellite' invariant
\* never fails.
C1_AtMostOnePipelinePerSatellite ==
    /\ err # "InvariantError: already tracked satellite"
    /\ \A i, j \in 1..Len(pipelines) :
          pipelines[i].satellite_id = pipelines[j].satellite_id => i = j
    /\ acquisition # <<>> =>
          acquisition[1].satellite_id \notin tracked_satellite_ids

\* The background acquirer's result installs a second Pipeline.
C1_Witness ==
    /\ mode = "subprocess"
    /\ acquisition # <<>>
    /\ Len(pipelines) = 2
    /\ pipelines[2].satellite_id = acquisition[1].satellite_id

\* C2: when a Pipeline raises ParityError or UnknownBitPhaseError the
\* Receiver removes, in the same step and before the solver runs, the
\* Pipeline and the satellite's pending and promoted parameters, so that the
\* step's solution does not use the dropped satellite.
C2_DroppedBeforeSolver ==
    /\ raised \in {"ParityError", "UnknownBitPhaseError"} =>
          raised_by \in dropped
    /\ \A satellite_id \in dropped :
          /\ satellite_id \notin PipelineIds(pipelines)
          /\ satellite_id \notin DOMAIN pending
          /\ satellite_id \notin DOMAIN params
          /\ solved => satellite_id \notin solver_ids

\* A satellite was dropped in a step whose solver went on to use another.
C2_Witness ==
    /\ solved
    /\ dropped # {}
    /\ solver_ids # {}

\* C3: at the end of every Receiver step, every satellite with an entry in
\* the World, pending or promoted, has a Pipeline.
C3_WorldEntriesHavePipelines ==
    pc \in {"solve", "http", "acquire"} =>
        (DOMAIN pending \cup DOMAIN params) \subseteq PipelineIds(pipelines)

\* The loop dropped one satellite and left the World entry of another.
C3_Witness ==
    /\ pc = "http"
    /\ dropped # {}
    /\ DOMAIN pending # {}

\* C4 (as stated): when a parity-valid subframe has a wrong TLM preamble or a
\* subframe id outside 1..5, the Receiver drops that satellite (Pipeline and
\* parameters removed) and keeps processing the other satellites.
C4_InvalidSubframeDropsSatellite ==
    raised = "InvariantError" =>
        /\ pc # "crashed"
        /\ err = "none"
        /\ raised_by \in dropped
        /\ raised_by \notin PipelineIds(pipelines)
        /\ raised_by \notin DOMAIN pending \cup DOMAIN params

\* C4 (amended): the SubframeDecoder's InvariantError is not caught by the
\* Receiver: the step ends at that Pipeline with the satellite's Pipeline
\* and World entry in place, the rest of the Pipelines unprocessed and the
\* solver not run.
C4_InvalidSubframeAbortsStep ==
    raised = "InvariantError" =>
        /\ pc = "crashed"
        /\ err = "InvariantError"
        /\ todo # <<>>
        /\ Head(todo) = raised_by
        /\ raised_by \in PipelineIds(pipelines)
        /\ raised_by \notin dropped
        /\ raised_by \in DOMAIN pending \cup DOMAIN params
        /\ ~solved

\* The InvariantError leaves another satellite's Pipeline unprocessed.
C4_Witness ==
    /\ raised = "InvariantError"
    /\ Len(todo) >= 2

\* C6: with the background acquirer at most one job is outstanding (sent,
\* being computed, or answered and not yet received), and one is
\* outstanding exactly while main is waiting: main sends only when it is
\* not waiting.
C6_AtMostOneJobOutstanding ==
    /\ Len(toWorker) + Len(workerJob) + Len(toMain) <= 1
    /\ waiting <=> (Len(toWorker) + Len(workerJob) + Len(toMain) = 1)
    /\ waiting <=> (inflight # NoSat)

\* The worker computes a second job after main received the first result.
C6_Witness ==
    /\ waiting
    /\ workerJob # <<>>
    /\ Len(pipelines) >= 1

\* C8: after a result for a satellite obtained in the step whose block ends
\* at t, the satellite is not chosen as target in a step whose block ends
\* before t + ACQUISITION_INTERVAL.
C8_NoRetryWithinInterval ==
    (target # NoSat /\ prev_result_at # MinTimestamp) =>
        now >= prev_result_at + ACQUISITION_INTERVAL

\* A satellite is chosen again once the interval has passed.
C8_Witness ==
    /\ target # NoSat
    /\ prev_result_at # MinTimestamp

\* C9: whenever an attempt starts, the chosen satellite is not tracked, its
\* next-attempt time is not after the end of the newest block, and no other
\* untracked satellite has a strictly smaller next-attempt time.
C9_TargetIsDueAndEarliest ==
    [][(pc = "acquire" /\ target' # NoSat) =>
          /\ target' \notin PipelineIds(pipelines)
          /\ next_acquisition_at[target'] <= now'
          /\ \A si \in ALL_SATELLITE_IDS \ PipelineIds(pipelines) :
                next_acquisition_at[si] >= next_acquisition_at[target']]_vars

\* An attempt starts while another untracked satellite has to wait.
C9_Witness ==
    /\ target # NoSat
    /\ \E si \in ALL_SATELLITE_IDS \ PipelineIds(pipelines) :
          /\ si # target
          /\ next_acquisition_at[si] > now

C7_EveryJobIsAnswered ==
    /\ [](toMain # <<>> =>
            /\ Len(toMain) = 1
            /\ waiting
            /\ toMain[1].satellite_id = inflight)
    /\ \A si \in ALL_SATELLITE_IDS :
          (waiting /\ inflight = si) ~>
              \/ /\ ~waiting
                 /\ result # <<>>
                 /\ result[1].satellite_id = si
              \/ err # "none"

\* Main has received the answer to a job and is not waiting any more.
C7_Witness ==
    /\ result # <<>>
    /\ ~waiting
    /\ inflight = NoSat
    /\ toMain = <<>>

(***************************************************************************)
(* Properties of the Tracker (TrackerSpec).                                *)
(***************************************************************************)
\* C5: after every Tracker step, whatever the discriminator and the Doppler
\* term, the stored prn_code_phase_shift is at least 0 and less than 2046.
C5_PhaseShiftInRange ==
    /\ 0 <= prn_code_phase_shift
    /\ prn_code_phase_shift < PRN_CODE_LENGTH

C12_SideLatchesOnWrap ==
    [][(tracker_steps' # tracker_steps /\ wrap_side' = "None") =>
          side' = side]_vars

\* Without a wrap the phase is on the other half than the side says.
C12_Witness ==
    /\ tracker_steps > 0
    /\ wrap_side = "None"
    /\ side # InitialSide(prn_code_phase_shift)

(***************************************************************************)
(* Properties of the World's timing bookkeeping (WorldSpec).               *)
(***************************************************************************)
\* C13: a satellite's pending record is promoted in exactly the first World
\* call after which subframes 1, 2 and 3 have all been received and at
\* least one PRN-edge observation has been recorded, in any order of
\* arrival; before that the satellite has no SatelliteParameters, and
\* subframes 4 and 5 do not count.
C13_PromotedExactlyWhenComplete ==
    /\ (w_params # <<>>) <=> ({1, 2, 3} \subseteq w_got /\ w_observed)
    /\ w_promoted_now => (w_params # <<>> /\ w_pending = <<>>)
    /\ w_params # <<>> => w_pending = <<>>
    /\ ~w_failed

\* The subframes, a subframe 4 among them, came before the first
\* observation, which promoted the record.
C13_Witness ==
    /\ w_promoted_now
    /\ w_call = "prns"
    /\ 4 \in w_got

\* C14: at promotion prn_count is -1 if the side most recently reported by
\* the Tracker is RIGHT and 0 if it is LEFT, whatever counts were reported
\* while the satellite was pending.
C14_InitialCountFollowsSide ==
    w_promoted_now =>
        /\ w_last_side \in {"LEFT", "RIGHT"}
        /\ w_last_side = "RIGHT" => w_params[1].prn_count = -1
        /\ w_last_side = "LEFT" => w_params[1].prn_count = 0

\* Promoted with the right side dominant after a wrap while pending.
C14_Witness ==
    /\ w_promoted_now
    /\ w_last_side = "RIGHT"
    /\ w_wraps > 0
    /\ w_pending_steps = MaxPendingSteps

\* C15: every subframe, of any id from 1 to 5, received for a satellite that
\* has SatelliteParameters sets tow_count to the subframe's TOW count and
\* decreases prn_count by exactly the number of PRN codes of a subframe;
\* no subframe resets prn_count to 0.
C15_SubframeSubtractsCodes ==
    (w_call = "subframe" /\ w_before # <<>>) =>
        /\ w_params # <<>>
        /\ w_params[1].prn_count = w_before[1] - PRN_CODES_PER_SUBFRAME
        /\ w_params[1].tow_count = w_subframe[1].tow_count_msbs

\* A subframe 5 for a promoted satellite whose count is not left at 0.
C15_Witness ==
    /\ w_call = "subframe"
    /\ w_before # <<>>
    /\ w_subframe[1].subframe_id = 5
    /\ w_params[1].prn_count # 0

\* C16: for a promoted satellite, over the PRN_CODES_PER_SUBFRAME Tracker
\* steps between two consecutive subframes, if exactly one step wraps the
\* reported counts sum to one more (LEFT) or one fewer (RIGHT) than
\* PRN_CODES_PER_SUBFRAME, so that after the second subframe prn_count
\* differs from its value after the first by +1 or -1; by 0 if no step wraps.
C16_WrapShiftsCountByOne ==
    (w_closed # <<>> /\ w_closed[1].first # <<>>
        /\ w_closed[1].steps = PRN_CODES_PER_SUBFRAME) =>
        LET c == w_closed[1]
        IN  /\ (c.lefts = 1 /\ c.rights = 0) =>
                  /\ c.sum = PRN_CODES_PER_SUBFRAME + 1
                  /\ c.second - c.first[1] = 1
            /\ (c.lefts = 0 /\ c.rights = 1) =>
                  /\ c.sum = PRN_CODES_PER_SUBFRAME - 1
                  /\ c.second - c.first[1] = -1
            /\ (c.lefts = 0 /\ c.rights = 0) =>
                  /\ c.sum = PRN_CODES_PER_SUBFRAME
                  /\ c.second = c.first[1]

\* One step of the interval wrapped over the left side.
C16_Witness ==
    /\ w_closed # <<>>
    /\ w_closed[1].first # <<>>
    /\ w_closed[1].steps = PRN_CODES_PER_SUBFRAME
    /\ w_closed[1].lefts = 1
    /\ w_closed[1].rights = 0
    /\ w_closed[1].second - w_closed[1].first[1] = 1


(***************************************************************************)
(* Properties of the PseudobitIntegrator (BitSpec)                         *)
(***************************************************************************)
\* C17: once bit_phase is 1 or -1 no step changes it, and
\* _determine_bit_phase is called at most once for a Pipeline.
C17_BitPhaseLatches ==
    [][/\ bit_phase # 0 => bit_phase' = bit_phase
       /\ bit_determinations' <= 1]_vars

\* The bit phase was determined, pseudobits for more than another subframe
\* followed and a further candidate was handed on.
C17_Witness ==
    /\ bit_phase # 0
    /\ bit_determinations = 1
    /\ bit_since > BITS_PER_SUBFRAME
    /\ bit_drained # <<>>

\* C19: _determine_bit_phase is first called when
\* _PSEUDOBITS_REQUIRED_TO_DETERMINE_BIT_PHASE pseudobits are buffered; the
\* offset it chooses is the smallest one in 0..BITS_PER_SUBFRAME-1 from which
\* every full window starts with the preamble (bit phase 1) or every full
\* window starts with its inverse (bit phase -1), the preamble coming first;
\* and exactly the pseudobits before that offset are dropped: what the call
\* hands on as candidates and what it keeps is the rest, in order.
C19_SmallestMatchingOffset ==
    LET from == bit_determined_from
        Match(o, ph) ==
            \A k \in 0..(Len(from) \div BITS_PER_SUBFRAME) :
                o + (k + 1) * BITS_PER_SUBFRAME <= Len(from) =>
                    \A j \in 1..PreambleBits :
                        from[o + k * BITS_PER_SUBFRAME + j]
                            = ph * _TLM_PREAMBLE[j]
    IN  /\ bit_determinations = 0 =>
              /\ Len(pseudobits) < _PSEUDOBITS_REQUIRED_TO_DETERMINE_BIT_PHASE
              /\ bit_phase = 0
        /\ bit_determinations > 0 =>
              Len(from) = _PSEUDOBITS_REQUIRED_TO_DETERMINE_BIT_PHASE
        /\ bit_phase # 0 <=> bit_offset # <<>>
        /\ bit_offset # <<>> =>
              LET o == bit_offset[1]
                  rest == SubSeq(from, o + 1, Len(from))
                  handed == Len(bit_drained)
              IN  /\ o \in 0..(BITS_PER_SUBFRAME - 1)
                  /\ bit_phase \in {1, -1}
                  /\ Match(o, bit_phase)
                  /\ bit_phase = -1 => ~Match(o, 1)
                  /\ \A o2 \in 0..(o - 1) : ~Match(o2, 1) /\ ~Match(o2, -1)
                  /\ bit_since = 0 =>
                        /\ handed + Len(pseudobits) = Len(rest)
                        /\ \A j \in 1..handed :
                              (bit_drained[j] = 1) <=> (rest[j] = bit_phase)
                        /\ \A j \in 1..Len(pseudobits) :
                              pseudobits[j] = rest[handed + j]

\* The inverse preamble was found at an offset other than 0 and the call
\* that found it has just returned.
C19_Witness ==
    /\ bit_offset # <<>>
    /\ bit_offset[1] > 0
    /\ bit_phase = -1
    /\ bit_since = 0
    /\ bit_drained # <<>>
    /\ pseudobits # <<>>

\* C20: if no offset matches when the determination is attempted,
\* UnknownBitPhaseError is raised, no candidate has been handed to the
\* SubframeDecoder, and the Receiver drops the satellite: its Pipeline and
\* its World entries are gone.  UnknownBitPhaseError is raised in no other
\* case.
C20_UnknownBitPhaseDropsSatellite ==
    LET from == bit_determined_from
        Match(o, ph) ==
            \A k \in 0..(Len(from) \div BITS_PER_SUBFRAME) :
                o + (k + 1) * BITS_PER_SUBFRAME <= Len(from) =>
                    \A j \in 1..PreambleBits :
                        from[o + k * BITS_PER_SUBFRAME + j]
                            = ph * _TLM_PREAMBLE[j]
        none_matches ==
            \A o \in 0..(BITS_PER_SUBFRAME - 1) :
                ~Match(o, 1) /\ ~Match(o, -1)
    IN  /\ (bit_determinations > 0 /\ none_matches) =>
              /\ raised = "UnknownBitPhaseError"
              /\ bit_candidates = 0
              /\ bit_drained = <<>>
              /\ err = "none"
              /\ raised_by \in dropped
              /\ raised_by \notin PipelineIds(pipelines)
              /\ raised_by \notin DOMAIN pending
              /\ raised_by \notin DOMAIN params
        /\ raised = "UnknownBitPhaseError" =>
              (bit_determinations > 0 /\ none_matches)

\* The determination failed and the satellite, which had pending
\* parameters, is gone.
C20_Witness ==
    /\ raised = "UnknownBitPhaseError"
    /\ bit_determinations = 1
    /\ dropped # {}
    /\ pipelines = <<>>


C21_InversionYieldsSameBits ==
    /\ Len(inv_pseudobits) = Len(pseudobits)
    /\ \A i \in 1..Len(pseudobits) : inv_pseudobits[i] = -pseudobits[i]
    /\ inv_bit_phase = -bit_phase
    /\ inv_offset = bit_offset
    /\ inv_drained = bit_drained
    /\ inv_exception = raised

\* The determination succeeded with bit phase 1 at an offset other than 0,
\* so the inverted stream gave -1, and candidates were handed on.
C21_Witness ==
    /\ bit_phase = 1
    /\ inv_bit_phase = -1
    /\ bit_offset # <<>>
    /\ bit_offset[1] > 0
    /\ bit_drained # <<>>
    /\ Len(bit_drained) > BITS_PER_SUBFRAME


\* C22: _decode_subframe_data called with the encoding of data words
\* returns these data bits, and called with the encoding with one bit
\* inverted, a data bit or a parity bit, raises ParityError.
C22_DecodesAndDetectsOneFlip ==
    (decode_call # <<>> /\ decode_call[1].result # <<>>) =>
        LET call == decode_call[1]
            returned == call.result[1]
        IN  IF call.flipped = 0
            THEN /\ returned.exception = "none"
                 /\ Len(returned.data) = WordsPerSubframe * _DATA_BITS_PER_WORD
                 /\ \A k \in 1..WordsPerSubframe :
                       \A j \in 1.._DATA_BITS_PER_WORD :
                           returned.data[(k - 1) * _DATA_BITS_PER_WORD + j]
                               = call.data[k][j]
            ELSE returned.exception = "ParityError"

\* A subframe whose first word ends with a 1 was decoded after the last
\* parity bit of its last word was inverted, and ParityError was raised.
C22_Witness ==
    /\ decode_call # <<>>
    /\ decode_call[1].result # <<>>
    /\ decode_call[1].transmitted[_BITS_PER_WORD] = 1
    /\ decode_call[1].flipped = WordsPerSubframe * _BITS_PER_WORD
    /\ decode_call[1].result[1].exception = "ParityError"


(***************************************************************************)
(* Properties of the solver (SolverSpec)                                   *)
(***************************************************************************)
\* C23: compute_solution uses exactly the promoted satellites whose
\* sv_health starts with 0; it returns no fix when they are fewer than 4 and
\* a fix only when they are at least 4; a satellite whose parameters are
\* pending is not among them.
C23_FixNeedsFourHealthy ==
    [][(pc = "solve" /\ pc' = "http") =>
          LET healthy ==
                  {satellite_id \in DOMAIN params :
                      params[satellite_id].sv_health = 0}
          IN  /\ solver_ids' = healthy
              /\ healthy \cap DOMAIN pending = {}
              /\ Cardinality(healthy) < 4 => solutions' = solutions
              /\ solutions' # solutions =>
                    (Cardinality(healthy) >= 4 /\ solutions' = solutions + 1)
              /\ Cardinality(healthy) >= 4 => solutions' = solutions + 1]_vars

\* The solver ran with three healthy satellites and an unhealthy one
\* promoted and returned no fix, after a step in which it had returned one.
C23_Witness ==
    /\ solved
    /\ pc = "http"
    /\ Cardinality(solver_ids) = 3
    /\ Cardinality(DOMAIN params) = 4
    /\ solutions = 1
    /\ now > 1


(***************************************************************************)
(* Properties of the order inside one Receiver step (Spec)                 *)
(***************************************************************************)
\* C24: in every Receiver step the Acquirer runs first, then every Pipeline
\* with its World updates, then the solver, then the telemetry snapshot; the
\* solver runs once per step, after every Pipeline of the step has been fed,
\* and reads the World as these Pipelines and the drops of the step left it.
C24_AcquirerPipelinesSolverTelemetry ==
    [][/\ pc' # pc =>
             <<pc, pc'>> \in {<<"acquire", "pipelines">>, <<"acquire", "crashed">>,
                              <<"pipelines", "solve">>, <<"pipelines", "crashed">>,
                              <<"solve", "http">>, <<"http", "acquire">>}
       /\ now' # now => pc = "acquire"
       /\ (fed' # fed /\ fed' # {}) => pc = "pipelines"
       /\ <<pending', params'>> # <<pending, params>> => pc = "pipelines"
       /\ (solved' # solved /\ solved') => (pc = "solve" /\ pc' = "http")
       /\ ms_since_http' # ms_since_http => (pc = "http" /\ solved)
       /\ (pc = "solve" /\ pc' = "http") =>
             /\ ~solved /\ solved'
             /\ fed = PipelineIds(pipelines) \cup dropped
             /\ tracked_satellite_ids \subseteq fed
             /\ solver_ids' = {satellite_id \in DOMAIN params' :
                                  params'[satellite_id].sv_health = 0}
             /\ solver_ids' \cap dropped = {}
             /\ solver_ids' \subseteq fed]_vars

\* The solver ran in a step in which two Pipelines were fed, one of them
\* was dropped and the other one's satellite is healthy.
C24_Witness ==
    /\ pc = "http"
    /\ solved
    /\ Cardinality(fed) = 2
    /\ dropped # {}
    /\ solver_ids # {}


(***************************************************************************)
(* Properties of dropping and re-acquiring (Spec)                          *)
(***************************************************************************)
\* C25: a Pipeline leaves the Receiver only by the drop that follows its own
\* ParityError or UnknownBitPhaseError, one drop for one failure; a dropped
\* satellite without a Pipeline is a candidate of the next choice of target
\* once its next acquisition time has come, and when a later attempt on it
\* reports a strength of at least the threshold it gets a new Pipeline.
C25_DroppedThenAcquiredAgain ==
    [][/\ \A satellite_id \in PipelineIds(pipelines) \ PipelineIds(pipelines') :
             /\ raised' \in {"ParityError", "UnknownBitPhaseError"}
             /\ raised_by' = satellite_id
             /\ satellite_id \notin dropped
             /\ dropped' = dropped \cup {satellite_id}
             /\ Len(pipelines') = Len(pipelines) - 1
       /\ (raised' = "ParityError" /\ fed' # fed) =>
             /\ raised_by' \in PipelineIds(pipelines)
             /\ PipelineIds(pipelines') = PipelineIds(pipelines) \ {raised_by'}
             /\ Len(pipelines') = Len(pipelines) - 1
             /\ dropped' = dropped \cup {raised_by'}
             /\ raised_by' \notin dropped
             /\ raised_by' \notin DOMAIN pending' \cup DOMAIN params'
       /\ (/\ now' # now
           /\ samples' >= MS_OF_SAMPLES_REQUIRED_TO_PERFORM_ACQUISITION
           /\ mode = "main" \/ ~waiting) =>
             \A satellite_id \in ever_dropped \ PipelineIds(pipelines) :
                 next_acquisition_at[satellite_id] <= now' =>
                     /\ target' # NoSat
                     /\ target' \notin PipelineIds(pipelines)
                     /\ \/ target' = satellite_id
                        \/ next_acquisition_at[target']
                               <= next_acquisition_at[satellite_id]
       /\ (/\ now' # now
           /\ result' # <<>>) =>
             LET satellite_id == result'[1].satellite_id
             IN  (/\ satellite_id \in ever_dropped
                  /\ result'[1].strength >= ACQUISITION_STRENGTH_THRESHOLD) =>
                     /\ satellite_id \notin PipelineIds(pipelines)
                     /\ pipelines' =
                           Append(pipelines,
                                  [satellite_id |-> satellite_id,
                                   bit_phase_known |-> FALSE])
                     /\ pc' = "pipelines"]_vars

\* A satellite that was dropped in an earlier step was acquired again in
\* this step and its new Pipeline is about to be fed.
C25_Witness ==
    /\ pc = "pipelines"
    /\ acquisition # <<>>
    /\ acquisition[1].satellite_id \in ever_dropped
    /\ acquisition[1].satellite_id \in PipelineIds(pipelines)
    /\ todo # <<>>


\* C26: each of the four histories of a Tracker holds the newest values put
\* into it, at most TRACKING_HISTORY_SIZE (1000) of them and in the order in
\* which they were put in; Receiver._solutions holds the newest fixes, at
\* most SOLUTION_HISTORY_SIZE (10); Acquirer._samples holds the newest
\* blocks, at most MS_OF_SAMPLES_REQUIRED_TO_PERFORM_ACQUISITION (10).
C26_HistoriesHoldTheNewest ==
    (fn_call # <<>> /\ fn_call[1].f = "history") =>
        LET h == fn_call[1]
            maxlen == CASE h.owner = "Tracker" -> 1000
                        [] h.owner = "Receiver" -> 10
                        [] h.owner = "Acquirer" -> 10
        IN  \A name \in DOMAIN h.deques :
                LET kept == h.deques[name]
                    all == h.log[name]
                IN  /\ Len(kept) <= maxlen
                    /\ Len(kept) = IF Len(all) < maxlen THEN Len(all) ELSE maxlen
                    /\ \A i \in 1..Len(kept) :
                          kept[i] = all[Len(all) - Len(kept) + i]

\* A Tracker has handled 1001 blocks: its histories are full and no longer
\* hold the values of the first block or the acquisition's estimates.
C26_Witness ==
    /\ fn_call # <<>>
    /\ fn_call[1].f = "history"
    /\ fn_call[1].owner = "Tracker"
    /\ Len(fn_call[1].log._correlations) = TRACKING_HISTORY_SIZE + 1
    /\ Len(fn_call[1].deques._correlations) = TRACKING_HISTORY_SIZE
    /\ fn_call[1].deques._correlations[1] = 2
    /\ fn_call[1].deques._carrier_phase_shifts[1] = 2


(***************************************************************************)
(* Properties of the buffers of a Pipeline (SymSpec)                       *)
(***************************************************************************)
\* C27: the pseudosymbol buffer of the PseudosymbolIntegrator and the bit
\* buffer of the PseudobitIntegrator are bounded by a constant for any input
\* stream: the first never holds more pseudosymbols than the search for the
\* bit boundary asks for, the second never more pseudobits than the
\* determination of the bit phase asks for.
C27_BuffersBoundedByAConstant ==
    /\ Len(pseudosymbols) <= _PSEUDOSYMBOLS_REQUIRED_TO_DETECT_BOUNDARIES
    /\ Len(pseudobits) <= _PSEUDOBITS_REQUIRED_TO_DETERMINE_BIT_PHASE


\* C28: the C/A code generated for satellite 1 has 1023 chips, begins with
\* 1100100000 and contains 512 or 511 ones.
C28_SatelliteOneCode ==
    (fn_call # <<>> /\ fn_call[1].f = "prn" /\ fn_call[1].satellite_id = 1) =>
        LET prn_code == fn_call[1].prn_code
            ones == Cardinality({i \in 1..Len(prn_code) : prn_code[i] = 1})
        IN  /\ Len(prn_code) <= 1023
            /\ \A i \in 1..Len(prn_code) :
                  /\ prn_code[i] \in {0, 1}
                  /\ i <= 10 => prn_code[i] = <<1, 1, 0, 0, 1, 0, 0, 0, 0, 0>>[i]
            /\ Len(prn_code) = 1023 => ones \in {511, 512}
            /\ Len(prn_code) < 1023 => ENABLED GeneratePrnChip

\* The code of satellite 1 is complete.
C28_Witness ==
    /\ fn_call # <<>>
    /\ fn_call[1].f = "prn"
    /\ fn_call[1].satellite_id = 1
    /\ Len(fn_call[1].prn_code) = 1023
    /\ ~ENABLED GeneratePrnChip


C30_RetainedStrengthNeverDecreases ==
    (/\ fn_call # <<>> /\ fn_call[1].f = "search"
     /\ fn_call[1].new_acquisition # <<>>) =>
        LET search == fn_call[1]
            best == search.best_acquisition
            before == search.previous
            newest == search.new_acquisition
        IN  /\ best # <<>>
            /\ before = <<>> => best = newest
            /\ before # <<>> =>
                  /\ \/ best = before
                     \/ /\ best = newest
                        /\ best[1].strength > before[1].strength
                        /\ before[1].strength # -1
                  /\ (best[1].strength # -1 /\ before[1].strength # -1) =>
                        best[1].strength >= before[1].strength
                  /\ (newest[1].strength # -1 /\ before[1].strength # -1
                      /\ newest[1].strength > before[1].strength) =>
                        best = newest
            /\ search.centre_frequency_shift = best[1].carrier_frequency_shift

\* The search is over, its last iteration reported less than the one
\* before it, which had reported more than was retained until then.
C30_Witness ==
    /\ fn_call # <<>>
    /\ fn_call[1].f = "search"
    /\ fn_call[1].half_frequency_shift_range < SmallestHalfFrequencyShiftRange
    /\ fn_call[1].previous # <<>>
    /\ fn_call[1].best_acquisition = fn_call[1].previous
    /\ fn_call[1].best_acquisition[1].strength = MaxSearchStrength
    /\ fn_call[1].new_acquisition[1].strength = 1
    /\ fn_call[1].best_acquisition[1].carrier_frequency_shift = 7680 + 30


(***************************************************************************)
(* Properties of the in-process acquirer's schedule (Spec)                 *)
(***************************************************************************)
\* C31: with the in-process acquirer, a step searches exactly one satellite
\* when the window is full and an untracked satellite is due, and none
\* otherwise.  A due untracked satellite that is passed over has one
\* satellite fewer ahead of it afterwards (ahead: an earlier time, or the
\* same time and a smaller id), and while it is due no satellite gets ahead
\* of it: it is searched after at most as many steps as there are other
\* satellites.
C31_OneSearchPerStepAndNoStarvation ==
    [][(mode = "main" /\ now' # now) =>
          LET due == {si \in ALL_SATELLITE_IDS \ PipelineIds(pipelines) :
                         next_acquisition_at[si] <= now'}
              full == samples' >= 10
              Ahead(next_at, si) ==
                  {sj \in ALL_SATELLITE_IDS \ {si} :
                      \/ next_at[sj] < next_at[si]
                      \/ next_at[sj] = next_at[si] /\ sj < si}
          IN  /\ (full /\ due # {}) =>
                    /\ target' \in due
                    /\ result' # <<>>
                    /\ result'[1].satellite_id = target'
                    /\ next_acquisition_at'[target'] > now'
                    /\ \A si \in ALL_SATELLITE_IDS \ {target'} :
                          next_acquisition_at'[si] = next_acquisition_at[si]
              /\ ~(full /\ due # {}) =>
                    /\ target' = NoSat
                    /\ result' = <<>>
                    /\ next_acquisition_at' = next_acquisition_at
              /\ \A si \in due \ {target'} :
                    /\ Cardinality(Ahead(next_acquisition_at, si))
                          <= Cardinality(ALL_SATELLITE_IDS) - 1
                    /\ Ahead(next_acquisition_at', si)
                          \subseteq Ahead(next_acquisition_at, si)
                    /\ full =>
                          /\ target' \in Ahead(next_acquisition_at, si)
                          /\ target' \notin Ahead(next_acquisition_at', si)]_vars

\* Two untracked satellites are due in a step with a full window: one is
\* searched and the other is passed over.
C31_Witness ==
    /\ mode = "main"
    /\ pc = "pipelines"
    /\ target # NoSat
    /\ result # <<>>
    /\ \E si \in ALL_SATELLITE_IDS \ (PipelineIds(pipelines) \cup {target}) :
          next_acquisition_at[si] <= now


(***************************************************************************)
(* Properties of the search for the bit boundary (SymSpec)                 *)
(***************************************************************************)
\* C32: the search for the bit boundary runs at most once, in a call after
\* whose append the buffer holds at least _PSEUDOSYMBOLS_REQUIRED_PER_PHASE
\* pseudosymbols of value 1 and as many of value -1 (200 of each in the
\* program, half of _PSEUDOSYMBOLS_REQUIRED_TO_DETECT_BOUNDARIES); it picks
\* an offset below _PSEUDOSYMBOLS_PER_BIT and discards exactly that many
\* pseudosymbols from the front of the buffer.
C32_SearchOnceWithBothPhases ==
    LET count(buf, x) == Cardinality({j \in DOMAIN buf : buf[j] = x})
        per_phase_times_2 == BoundaryBits * SymbolsPerBit
    IN  /\ sym_searches <= 1
        /\ bit_boundary_found <=> sym_searches = 1
        /\ ~bit_boundary_found =>
              /\ sym_discarded = 0
              /\ \/ 2 * count(pseudosymbols, 1) < per_phase_times_2
                 \/ 2 * count(pseudosymbols, -1) < per_phase_times_2
        /\ (bit_boundary_found /\ sym_since = 0) =>
              /\ 2 * count(sym_from, 1) >= per_phase_times_2
              /\ 2 * count(sym_from, -1) >= per_phase_times_2
              /\ sym_discarded \in 0..(SymbolsPerBit - 1)
              /\ sym_retained = Len(sym_from) - sym_discarded
              /\ Len(sym_groups) * SymbolsPerBit + Len(pseudosymbols)
                    = sym_retained
              /\ \A j \in 1..sym_retained :
                    sym_from[sym_discarded + j] =
                        IF j <= Len(sym_groups) * SymbolsPerBit
                        THEN sym_groups[(j - 1) \div SymbolsPerBit + 1]
                                       [((j - 1) % SymbolsPerBit) + 1]
                        ELSE pseudosymbols[j - Len(sym_groups) * SymbolsPerBit]

\* The search ran on a buffer longer than the number of pseudosymbols asked
\* for, one phase having been slow to come, and discarded some pseudosymbols.
C32_Witness ==
    /\ bit_boundary_found
    /\ sym_since = 0
    /\ sym_searches = 1
    /\ sym_discarded > 0
    /\ Len(sym_from) > _PSEUDOSYMBOLS_REQUIRED_TO_DETECT_BOUNDARIES


(***************************************************************************)
(* Properties of the candidates handed to the SubframeDecoder (BitSpec)    *)
(***************************************************************************)
\* C33: every candidate handed to the SubframeDecoder has BITS_PER_SUBFRAME
\* bits (300 in the program); the candidates are consecutive windows of the
\* stream of UnresolvedBits that starts at the chosen offset: each call's
\* candidates and the bits it keeps are, in order, the bits kept before and
\* the new one, none left out and none handed on twice; and each bit handed
\* on is 1 for a pseudobit equal to the bit phase and 0 for its opposite.
C33_CandidatesAreConsecutiveWindows ==
    [][bitVars' # bitVars =>
          LET handed == bit_candidates' - bit_candidates
              resolve(u) ==
                  IF bit_phase' = 1 THEN (IF u = -1 THEN 0 ELSE 1)
                  ELSE (IF u = -1 THEN 1 ELSE 0)
          IN  /\ handed >= 0
              /\ Len(bit_drained') = handed * BITS_PER_SUBFRAME
              /\ bit_phase' = 0 => handed = 0
              /\ bit_phase # 0 => bit_phase' = bit_phase
              /\ (bit_phase' # 0 /\ raised' = "none") =>
                    Len(pseudobits') < BITS_PER_SUBFRAME
              /\ \E u \in {-1, 1} :
                    LET appended == Append(pseudobits, u)
                        stream ==
                            IF bit_phase = 0 /\ bit_phase' # 0
                            THEN SubSeq(appended, bit_offset'[1] + 1,
                                        Len(appended))
                            ELSE appended
                    IN  /\ Len(stream) = Len(bit_drained') + Len(pseudobits')
                        /\ \A j \in 1..Len(bit_drained') :
                              bit_drained'[j] = resolve(stream[j])
                        /\ \A j \in 1..Len(pseudobits') :
                              pseudobits'[j] = stream[Len(bit_drained') + j]]_vars

\* With the bit phase -1 determined earlier and two candidates handed on so
\* far, a call has handed on a candidate that holds both a 0 and a 1.
C33_Witness ==
    /\ bit_phase = -1
    /\ bit_since > 0
    /\ bit_candidates > 2
    /\ Len(bit_drained) = BITS_PER_SUBFRAME
    /\ \E i, j \in 1..Len(bit_drained) : bit_drained[i] # bit_drained[j]
    /\ raised = "none"


(***************************************************************************)
(* Properties of the centre and the range of the search (FunctionSpec)     *)
(***************************************************************************)
\* C34 (as stated): after each iteration of the search the centre of the
\* next range is the frequency shift that the iteration just completed
\* reported.
C34_CentreIsTheNewestMaximiser ==
    [][(/\ fn_call # <<>> /\ fn_call[1].f = "search"
        /\ fn_call' # fn_call) =>
           fn_call'[1].centre_frequency_shift =
               fn_call'[1].new_acquisition[1].carrier_frequency_shift]_vars

\* C34 (amended): after each iteration of the search the centre of the next
\* range is the frequency shift of the result retained so far, which is the
\* one the iteration just completed reported only when that iteration is the
\* first or its strength is greater than the strength retained before it;
\* otherwise the centre stays where it was.  The half range is halved by
\* every iteration, and an iteration takes place exactly while the half range
\* is 15 Hz or more, which for the half ranges the search goes through is the
\* same as 14 Hz or more.
C34_CentreIsTheRetainedMaximiser ==
    /\ [][(/\ fn_call # <<>> /\ fn_call[1].f = "search"
           /\ fn_call' # fn_call) =>
              LET before == fn_call[1]
                  after == fn_call'[1]
                  newest == after.new_acquisition[1]
                  stronger ==
                      \/ before.best_acquisition = <<>>
                      \/ /\ newest.strength # -1
                         /\ before.best_acquisition[1].strength # -1
                         /\ newest.strength
                                > before.best_acquisition[1].strength
              IN  /\ before.half_frequency_shift_range >= 14
                  /\ after.half_frequency_shift_range * 2
                         \in {before.half_frequency_shift_range,
                              before.half_frequency_shift_range - 1}
                  /\ newest.carrier_frequency_shift
                         >= before.centre_frequency_shift
                                - before.half_frequency_shift_range
                  /\ newest.carrier_frequency_shift
                         =< before.centre_frequency_shift
                                + before.half_frequency_shift_range
                  /\ stronger =>
                        after.centre_frequency_shift
                            = newest.carrier_frequency_shift
                  /\ ~stronger =>
                        /\ after.centre_frequency_shift
                               = before.centre_frequency_shift
                        /\ after.centre_frequency_shift
                               = before.best_acquisition[1]
                                     .carrier_frequency_shift]_vars
    /\ [](fn_call # <<>> /\ fn_call[1].f = "search" =>
            /\ (ENABLED AcquireSatelliteIteration)
                   <=> fn_call[1].half_frequency_shift_range >= 14
            /\ fn_call[1].half_frequency_shift_range
                   \in {7680, 3840, 1920, 960, 480, 240, 120, 60, 30, 15, 7})

\* The second iteration has reported a strength that is not greater than
\* the first one's, at a frequency shift away from the first one's, and the
\* next range is centred on the first one's.
C34_Witness ==
    /\ fn_call # <<>>
    /\ fn_call[1].f = "search"
    /\ fn_call[1].half_frequency_shift_range = 1920
    /\ fn_call[1].previous # <<>>
    /\ fn_call[1].best_acquisition = fn_call[1].previous
    /\ fn_call[1].new_acquisition[1].strength
           =< fn_call[1].previous[1].strength
    /\ fn_call[1].new_acquisition[1].strength # -1
    /\ fn_call[1].new_acquisition[1].carrier_frequency_shift
           # fn_call[1].centre_frequency_shift
    /\ fn_call[1].centre_frequency_shift
           = fn_call[1].previous[1].carrier_frequency_shift


(***************************************************************************)
(* Properties of the order of the World's calls in a Tracker step          *)
(* (FunctionSpec)                                                          *)
(***************************************************************************)
\* C35: in a step of the Tracker the World is given the step's count and
\* side before a subframe decoded in the step: a promoted satellite's count
\* after the step is its count before plus the step's count, less the codes
\* of a subframe if one was decoded; a satellite promoted by the step's
\* subframe starts from the side reported in this step (-1 for RIGHT, 0 for
\* LEFT) and the step's count is not added to that; a satellite that stays
\* pending holds the step's side.  No invariant of the World fails.
C35_SubframeAppliedAfterTheCount ==
    [][(/\ fn_call # <<>> /\ fn_call[1].f = "tracker"
        /\ fn_call' # fn_call) =>
           LET step == fn_call'[1]
               old == fn_call[1].world
               new == step.world
           IN  /\ ~new.invariant_failed
               /\ (old.params # <<>> /\ step.subframes = <<>>) =>
                     /\ new.params # <<>>
                     /\ new.params[1].prn_count =
                            old.params[1].prn_count + step.count
               /\ (old.params # <<>> /\ step.subframes # <<>>) =>
                     /\ new.params # <<>>
                     /\ new.params[1].prn_count =
                            old.params[1].prn_count + step.count
                                - PRN_CODES_PER_SUBFRAME
                     /\ new.params[1].tow_count =
                            step.subframes[1].tow_count_msbs
               /\ (old.params = <<>> /\ new.params # <<>>) =>
                     /\ step.subframes # <<>>
                     /\ new.pending = <<>>
                     /\ new.params[1].prn_count =
                            IF step.side = "RIGHT" THEN -1 ELSE 0
               /\ new.params = <<>> =>
                     /\ new.pending # <<>>
                     /\ new.pending[1].prn_code_trailing_edge_timestamp
                     /\ new.pending[1].side = step.side
                     /\ step.subframes # <<>> =>
                           new.pending[1].tow_count =
                               <<step.subframes[1].tow_count_msbs>>]_vars

\* The step in which the phase wrapped to the left, the right side having
\* been dominant until then, decoded the subframe that promoted the
\* satellite: its count starts from 0.
C35_Witness ==
    /\ fn_call # <<>>
    /\ fn_call[1].f = "tracker"
    /\ fn_call[1].stepped
    /\ fn_call[1].subframes # <<>>
    /\ fn_call[1].before.pending # <<>>
    /\ fn_call[1].before.pending[1].side = "RIGHT"
    /\ fn_call[1].count = 2
    /\ fn_call[1].side = "LEFT"
    /\ fn_call[1].world.params # <<>>
    /\ fn_call[1].world.params[1].prn_count = 0


(***************************************************************************)
(* Properties of the loop over the Pipelines (Spec)                        *)
(***************************************************************************)
\* C36: the loop of a Receiver step goes over the Pipelines present after
\* the installation of the step's acquisition, that Pipeline included and
\* each satellite once; each call feeds the first Pipeline not yet fed,
\* which still has its Pipeline, so when the loop is over every Pipeline the
\* step began the loop with, the new one among them, has been fed the
\* step's block exactly once.
C36_EveryPipelineFedOnceNewOneIncluded ==
    /\ [](LET rest == {todo[i] : i \in 1..Len(todo)}
          IN  /\ pc = "pipelines" =>
                    /\ \A i, j \in 1..Len(todo) : todo[i] = todo[j] => i = j
                    /\ rest \cap fed = {}
                    /\ rest \cup fed = PipelineIds(pipelines) \cup dropped
                    /\ rest \subseteq PipelineIds(pipelines)
                    /\ acquisition # <<>> =>
                          acquisition[1].satellite_id \in rest \cup fed
              /\ pc \in {"solve", "http"} =>
                    /\ fed = PipelineIds(pipelines) \cup dropped
                    /\ acquisition # <<>> =>
                          acquisition[1].satellite_id \in fed
              /\ pc = "acquire" => fed = {})
    /\ [][/\ (pc = "acquire" /\ pc' = "pipelines") =>
                /\ fed' = {}
                /\ {todo'[i] : i \in 1..Len(todo')} = PipelineIds(pipelines')
                /\ acquisition' # <<>> =>
                      /\ acquisition'[1].satellite_id
                             \notin PipelineIds(pipelines)
                      /\ todo'[Len(todo')] = acquisition'[1].satellite_id
                /\ PipelineIds(pipelines') =
                      PipelineIds(pipelines)
                          \cup (IF acquisition' = <<>> THEN {}
                                ELSE {acquisition'[1].satellite_id})
          /\ fed' # fed /\ fed' # {} =>
                /\ pc = "pipelines"
                /\ todo # <<>>
                /\ Head(todo) \notin fed
                /\ Head(todo) \in PipelineIds(pipelines)
                /\ fed' = fed \cup {Head(todo)}
                /\ pc' # "crashed" => todo' = Tail(todo)
          /\ (pc = "pipelines" /\ todo' # todo) => fed' # fed]_vars

\* The loop is over in a step that installed the Pipeline of a second
\* satellite: both Pipelines were fed and both are still there.
C36_Witness ==
    /\ pc = "solve"
    /\ acquisition # <<>>
    /\ Len(pipelines) = 2
    /\ pipelines[2].satellite_id = acquisition[1].satellite_id
    /\ fed = PipelineIds(pipelines)
    /\ dropped = {}


(***************************************************************************)
(* Properties of what a drop leaves alone (Spec)                           *)
(***************************************************************************)
\* C37: when the Pipeline of a satellite raises ParityError or
\* UnknownBitPhaseError, the step goes on with the rest of the list, so every
\* other Pipeline is fed as it would have been, and the call with its drop
\* changes nothing of the other satellites: their Pipelines stay, in their
\* order and with their state, and their pending and promoted entries of the
\* World are the ones they were.
C37_DropLeavesOtherSatellitesAlone ==
    [][(/\ fed' # fed
        /\ raised' \in {"ParityError", "UnknownBitPhaseError"}) =>
           LET satellite_id == Head(todo)
               others == ALL_SATELLITE_IDS \ {satellite_id}
           IN  /\ raised_by' = satellite_id
               /\ err' = "none"
               /\ pc' = IF Tail(todo) = <<>> THEN "solve" ELSE "pipelines"
               /\ todo' = Tail(todo)
               /\ fed' = fed \cup {satellite_id}
               /\ pipelines' =
                      SelectSeq(pipelines,
                                LAMBDA p : p.satellite_id # satellite_id)
               /\ Len(pipelines') = Len(pipelines) - 1
               /\ \A other \in others :
                     /\ other \in DOMAIN pending' <=> other \in DOMAIN pending
                     /\ other \in DOMAIN pending =>
                           pending'[other] = pending[other]
                     /\ other \in DOMAIN params' <=> other \in DOMAIN params
                     /\ other \in DOMAIN params =>
                           params'[other] = params[other]
                     /\ other \in dropped' <=> other \in dropped]_vars

\* The first Pipeline of the list was dropped for its UnknownBitPhaseError;
\* the second one, whose satellite has an entry in the World, is still to be
\* fed.
C37_Witness ==
    /\ pc = "pipelines"
    /\ raised = "UnknownBitPhaseError"
    /\ raised_by \in dropped
    /\ todo # <<>>
    /\ Head(todo) \in PipelineIds(pipelines)
    /\ Head(todo) \in DOMAIN pending \cup DOMAIN params
    /\ Head(todo) \notin fed


(***************************************************************************)
(* Properties of the two maps of the World (Spec)                          *)
(***************************************************************************)
\* C38: no satellite is in the pending and in the promoted map at once;
\* whatever the next Pipeline call reports and decodes, neither invariant of
\* _maybe_promote_pending_satellite_parameters fails in it; a satellite
\* leaves the promoted map only by the drop of that step, to neither map,
\* and a satellite that gets a pending entry had no promoted entry, so that
\* a promoted satellite is pending again only after it was dropped.
C38_PendingAndPromotedAreDisjoint ==
    /\ [](/\ DOMAIN pending \cap DOMAIN params = {}
          /\ (pc = "pipelines" /\ todo # <<>>) =>
                \A subframes \in SeqsUpTo(Subframes, MaxSubframesPerStep) :
                    \E after \in
                          {handle_subframes(
                               handle_prns_tracked(
                                   [pending |-> pending, params |-> params,
                                    invariant_failed |-> FALSE],
                                   Head(todo)),
                               Head(todo), subframes)} :
                        /\ ~after.invariant_failed
                        /\ DOMAIN after.pending \cap DOMAIN after.params = {})
    /\ [][\A satellite_id \in ALL_SATELLITE_IDS :
             /\ (/\ satellite_id \in DOMAIN params
                 /\ satellite_id \notin DOMAIN params') =>
                    /\ satellite_id \in dropped' \ dropped
                    /\ satellite_id \in ever_dropped'
                    /\ satellite_id \notin DOMAIN pending'
                    /\ satellite_id \notin PipelineIds(pipelines')
             /\ (/\ satellite_id \in DOMAIN pending'
                 /\ satellite_id \notin DOMAIN pending) =>
                    /\ satellite_id \notin DOMAIN params
                    /\ satellite_id \notin DOMAIN params']_vars

\* A satellite that was dropped has a Pipeline and a pending entry again,
\* while another satellite is promoted.
C38_Witness ==
    \E satellite_id \in ever_dropped :
        /\ satellite_id \in DOMAIN pending
        /\ satellite_id \in PipelineIds(pipelines)
        /\ DOMAIN params # {}


(***************************************************************************)
(* Properties of a promoted satellite's health (FunctionSpec)              *)
(***************************************************************************)
\* C39: the sv_health of a promoted satellite after a step is that of the
\* subframe 1 decoded in the step, and what it was before when the step
\* decoded no subframe or one of the subframes 2 to 5; the satellite stays
\* promoted, and the solver of the step uses it exactly if the first bit of
\* that sv_health is 0: it is left out from the step in which a subframe 1
\* with a first bit of 1 is received and used again from the step in which
\* one with a first bit of 0 is.
C39_HealthFollowsTheNewestSubframeOne ==
    [][(/\ fn_call # <<>> /\ fn_call[1].f = "health"
        /\ fn_call' # fn_call) =>
           LET old == fn_call[1].world
               new == fn_call'[1].world
               step == fn_call'[1].log[Len(fn_call'[1].log)]
           IN  /\ DOMAIN new.params = {1}
               /\ DOMAIN new.pending = {}
               /\ ~new.invariant_failed
               /\ step.before = old
               /\ step.subframes = <<>> =>
                     new.params[1].sv_health = old.params[1].sv_health
               /\ step.subframes # <<>> =>
                     new.params[1].sv_health =
                         IF step.subframes[1].subframe_id = 1
                         THEN step.subframes[1].sv_health
                         ELSE old.params[1].sv_health
               /\ 1 \in step.satellite_ids
                     <=> new.params[1].sv_health = 0
               /\ step.satellite_ids \subseteq {1}]_vars

\* The satellite was used by the solver, then a subframe 1 with a first
\* health bit of 1 took it out, a subframe 2 left it out, and the next
\* subframe 1, with a first health bit of 0, brought it back.
C39_Witness ==
    /\ fn_call # <<>>
    /\ fn_call[1].f = "health"
    /\ Len(fn_call[1].log) = 3
    /\ fn_call[1].log[1].before.params[1].sv_health = 0
    /\ fn_call[1].log[1].subframes = <<[subframe_id |-> 1, sv_health |-> 1]>>
    /\ fn_call[1].log[1].satellite_ids = {}
    /\ fn_call[1].log[2].subframes = <<[subframe_id |-> 2, sv_health |-> 0]>>
    /\ fn_call[1].log[2].satellite_ids = {}
    /\ fn_call[1].log[3].subframes = <<[subframe_id |-> 1, sv_health |-> 0]>>
    /\ fn_call[1].log[3].satellite_ids = {1}


(***************************************************************************)
(* Properties of the cursor of the SubframeDecoder (FunctionSpec)          *)
(***************************************************************************)
\* C40: for each subframe id from 1 to 5 no read of the fields goes past the
\* 240 decoded bits, so the invariant of _get_bits holds at every read; when
\* decode is done the cursor is at 240 for the subframes 1, 2 and 3, and at
\* 48, after the telemetry and the handover word, for the subframes 4 and 5.
C40_FieldsEndAtTheLastDataBit ==
    (fn_call # <<>> /\ fn_call[1].f = "fields") =>
        /\ ~fn_call[1].failed
        /\ fn_call[1].cursor <= 240
        /\ DataBitsPerSubframe = 240
        /\ fn_call[1].fields # <<>> =>
              /\ ENABLED DecodeNextField
              /\ fn_call[1].cursor + Head(fn_call[1].fields) <= 240
        /\ fn_call[1].fields = <<>> =>
              /\ fn_call[1].subframe_id \in {1, 2, 3} =>
                    /\ fn_call[1].cursor = 240
                    /\ fn_call[1].reads
                           = 9 + (CASE fn_call[1].subframe_id = 1 -> 14
                                    [] fn_call[1].subframe_id = 2 -> 12
                                    [] OTHER -> 10)
              /\ fn_call[1].subframe_id \in {4, 5} =>
                    /\ fn_call[1].cursor = 48
                    /\ fn_call[1].reads = 9
        /\ fn_call[1].reads >= 9 => fn_call[1].cursor >= 48

\* decode has read the last field of a subframe 1, its two parity-solving
\* bits, and the cursor is at the end of the data.
C40_Witness ==
    /\ fn_call # <<>>
    /\ fn_call[1].f = "fields"
    /\ fn_call[1].subframe_id = 1
    /\ fn_call[1].fields = <<>>
    /\ fn_call[1].reads = 23
    /\ fn_call[1].cursor = DataBitsPerSubframe

====
